---- MODULE Spec2Model ----
(***************************************************************************)
(* A model of FastMCP (src/src/FastMCP.ts): the FastMCPSession protocol    *)
(* adapter (handshake, roots tracking, logging level, liveness ping, the   *)
(* tools/call pipeline) and the FastMCP server (registry, session list,    *)
(* connect/disconnect events).                                             *)
(*                                                                         *)
(* The MCP SDK Server (this.#server), the transport and the mcp-proxy SSE  *)
(* endpoint are collaborators.  The model records what the repository's    *)
(* code hands to them (notifications, handler results, requests) and lets  *)
(* the environment choose what they answer.                                *)
(***************************************************************************)
EXTENDS Integers, Sequences, FiniteSets, TLC

\* ------------------------------------------------------------------ bounds

\* Connections the SSE endpoint accepts over a run.
MaxSessions == 2

\* roots/list_changed notifications the clients send over a run.
MaxRootsChanges == 1

\* roots/list_changed notifications over a run of the roots specification.
MaxOverlap == 2

\* Times the ping timers fire over a run.
MaxPingTicks == 2

\* connect() calls on a session that is already connected.
MaxThrown == 2

\* Tools the registry holds at most.
MaxTools == 3

\* prompts/get requests a client sends on one session.
MaxRequests == 2

\* tools/call requests a client sends on one session.
MaxCalls == 2

\* reportProgress and log calls the tools make on one session.
MaxContextCalls == 2

\* Candidates of the largest enum a prompt argument declares.
MaxEnum == 101

\* ------------------------------------------------------- program constants

\* while (attempt++ < 10)
MaxAttempts == 10

\* ------------------------------------------------------------------ values

Sessions == 1 .. MaxSessions

\* ClientCapabilities, reduced to the one field connect() reads (roots);
\* NoCaps stands for undefined.
NoCaps == [known |-> FALSE, roots |-> FALSE]

ClientCaps == { [known |-> TRUE, roots |-> r] : r \in BOOLEAN }

RootFrontend == [uri |-> "file:///home/user/projects/frontend", name |-> "Frontend Repository"]

RootBackend == [uri |-> "file:///home/user/projects/backend", name |-> "Backend Repository"]

\* The roots lists a client may answer a roots/list request with.
RootLists == { <<>>, <<RootFrontend>>, <<RootFrontend, RootBackend>> }

\* type LoggingLevel (two of its eight members)
LoggingLevels == { "debug", "info" }

\* The levels the logging specification sets: the most verbose one and one
\* above the level of three of the four log functions.
SetLevels == { "debug", "error" }

Range(seq) == { seq[i] : i \in 1 .. Len(seq) }

\* ------------------------------------------------------------------- state

VARIABLES
    tools,              \* FastMCP.#tools: the registry handed to every session
    sessions,           \* FastMCP.#sessions
    serverEvents,       \* events FastMCP emitted, each with the sessions list its listeners see
    endpoint,           \* per connection: where the SSE endpoint is with it
    transport,          \* per session: this.#server.transport is set
    clientInit,         \* per session: what this.#server.getClientCapabilities() returns
    clientCapabilities, \* per session: #clientCapabilities
    connectPc,          \* per session: where connect() is
    attempt,            \* per session: connect()'s attempt counter (polls made)
    roots,              \* per session: #roots
    loggingLevel,       \* per session: #loggingLevel
    pingInterval,       \* per session: #pingInterval (0 is null, else the id of the timer)
    timers,             \* per session: the ids of the live interval timers
    rootsChanges,       \* roots/list_changed notifications the sessions received
    rootsRequests,      \* per session: listRoots() requests of the notification handler awaiting an answer
    sessionEvents,      \* per session: events the session emitted
    pingTicks,          \* times a ping timer fired
    pendingPings,       \* per session: this.#server.ping() calls awaiting their answer
    calls,              \* per session: the tools/call requests received, in order (the index is the request id)
    outbox,             \* per session: what the session handed to this.#server to send, in order
    serverPc,           \* where FastMCP.start()/stop() is: the transport type and the stage
    thrown,             \* per session: the messages of the errors connect() threw to its caller
    toolHandlers,       \* per session: the constructor called setupToolHandlers
    requests,           \* per session: the prompts/get requests received, each with its loader calls and its answer
    lastSetLevel        \* per session: the last logging/setLevel request handled and what the handler returned

vars == << tools, sessions, serverEvents, endpoint, transport, clientInit,
           clientCapabilities, connectPc, attempt, roots, loggingLevel,
           pingInterval, timers, rootsChanges, rootsRequests, sessionEvents,
           pingTicks, pendingPings, calls, outbox, serverPc, thrown,
           toolHandlers, requests, lastSetLevel >>

serverVars == << sessions, serverEvents >>

connectVars == << transport, clientCapabilities, connectPc, attempt, pingInterval, timers >>

rootsVars == << rootsChanges, rootsRequests, sessionEvents >>

pingVars == << pingTicks, pendingPings >>

toolVars == << calls, outbox >>

hostVars == << serverPc, thrown >>

handlerVars == << toolHandlers, requests, lastSetLevel >>

\* No logging/setLevel request was handled yet.
NoSetLevel == [level |-> "none", result |-> "none"]

\* The handler result {}.
EmptyResult == <<>>

\* A tool of the registry: name, hasParameters (the tool declares a schema)
\* and parameters, the set of argument values the schema accepts.
NoSchema == {}

\* ------------------------------------------------------------ construction

\* new FastMCPSession(...): the private fields' initial values.
NewLoggingLevel == "info"

NewRoots == <<>>

InitSessions ==
    /\ sessions = <<>>
    /\ serverEvents = <<>>
    /\ endpoint = [s \in Sessions |-> "none"]
    /\ transport = [s \in Sessions |-> FALSE]
    /\ clientInit = [s \in Sessions |-> NoCaps]
    /\ clientCapabilities = [s \in Sessions |-> NoCaps]
    /\ connectPc = [s \in Sessions |-> "idle"]
    /\ attempt = [s \in Sessions |-> 0]
    /\ roots = [s \in Sessions |-> NewRoots]
    /\ loggingLevel = [s \in Sessions |-> NewLoggingLevel]
    /\ pingInterval = [s \in Sessions |-> 0]
    /\ timers = [s \in Sessions |-> {}]
    /\ rootsChanges = 0
    /\ rootsRequests = [s \in Sessions |-> 0]
    /\ sessionEvents = [s \in Sessions |-> <<>>]
    /\ pingTicks = 0
    /\ pendingPings = [s \in Sessions |-> 0]
    /\ calls = [s \in Sessions |-> <<>>]
    /\ outbox = [s \in Sessions |-> <<>>]
    /\ thrown = [s \in Sessions |-> <<>>]
    /\ toolHandlers = [s \in Sessions |-> FALSE]
    /\ requests = [s \in Sessions |-> <<>>]
    /\ lastSetLevel = [s \in Sessions |-> NoSetLevel]

\* ----------------------------------------------------------------- registry

\* Argument values a client may send with tools/call.
ArgValues == { "{a:1,b:2}", "{a:1,b:invalid}" }

\* z.object({ a: z.number(), b: z.number() }) as the set of values it accepts.
AddSchema == { "{a:1,b:2}" }

AddTool == [name |-> "add", hasParameters |-> TRUE, parameters |-> AddSchema]

\* A tool that declares no parameters.
PingTool == [name |-> "ping", hasParameters |-> FALSE, parameters |-> NoSchema]

\* A second tool registered under the name "add", without parameters.
AddDuplicate == [name |-> "add", hasParameters |-> FALSE, parameters |-> NoSchema]

\* Registries in which two tools have the same name.
DuplicateRegistries == { << AddTool, AddDuplicate, PingTool >>, << AddDuplicate, PingTool, AddTool >> }

\* The registry the lifecycle specifications start with.
DefaultRegistry == << AddTool >>

\* The registries the tool specification starts with: addTool was called
\* never, once or twice before start().
Registries == { <<>>, << AddTool >>, << AddTool, PingTool >> }

\* Tool names a client may ask for.
ToolNames == { "add", "ping" }

\* request.params._meta.progressToken; NoToken stands for undefined.
NoToken == "undefined"

ProgressTokens == { NoToken, "tokA" }

\* The tokens of requests that execute at the same time.
ConcurrentTokens == { "tokA", "tokB" }

\* Progress values a tool may report: one with and one without total.
Progresses == { [progress |-> 0, total |-> 10], [progress |-> 5] }

\* The functions of context.log.
LogFunctions == { "debug", "error", "info", "warn" }

\* Errors a tool's execute may throw: a UserError and a plain Error.
\* isUserError is what error instanceof UserError gives.
ToolErrors ==
    { [name |-> "UserError", message |-> "Something went wrong", isUserError |-> TRUE],
      [name |-> "Error", message |-> "boom", isUserError |-> FALSE] }

\* Values a tool's execute may resolve with: a string, a content result.
ToolResults ==
    { [kind |-> "string", text |-> "3"],
      [kind |-> "result", result |-> [content |-> << [type |-> "text", text |-> "a"], [type |-> "text", text |-> "b"] >>]] }

\* Content entries a tool may build: two texts, an image, and three that the
\* content schema rejects (image data that is not base64, an unknown type, an
\* extra field).
TextA == [type |-> "text", text |-> "a"]

TextB == [type |-> "text", text |-> "b"]

ImagePng == [type |-> "image", data |-> "aGVsbG8=", mimeType |-> "image/png"]

ImageNotBase64 == [type |-> "image", data |-> "not base64!", mimeType |-> "image/png"]

AudioContent == [type |-> "audio", data |-> "aGVsbG8="]

TextExtra == [type |-> "text", text |-> "a", extra |-> "x"]

Contents == { TextA, TextB, ImagePng, ImageNotBase64, AudioContent, TextExtra }

\* Entries of a content array a tool may return.
MaxContents == 2

ContentArrays == UNION { [1 .. n -> Contents] : n \in 0 .. MaxContents }

\* Everything the normalization is checked on: strings, the number the
\* quickstart tool returns, single content objects, and content results with
\* and without isError.
ResultValues ==
    { [kind |-> "string", text |-> x] : x \in { "3", "" } }
        \cup { [kind |-> "number", value |-> 3] }
        \cup { [kind |-> "content", content |-> c] : c \in Contents }
        \cup { [kind |-> "result", result |-> [content |-> cs]] : cs \in ContentArrays }
        \cup { [kind |-> "result", result |-> [content |-> cs, isError |-> b]] :
                   cs \in ContentArrays, b \in BOOLEAN }

\* ----------------------------------------------------- FastMCPSession.connect

\* setInterval(...): a new timer, its id stored in #pingInterval.
StartPingInterval(s) ==
    /\ pingInterval' = [pingInterval EXCEPT ![s] = @ + 1]
    /\ timers' = [timers EXCEPT ![s] = @ \cup { pingInterval[s] + 1 }]

\* new FastMCPSession({ tools: this.#tools, ... }): the constructor installs
\* the tool handlers only if (tools.length).
NewSession(s) == toolHandlers' = [toolHandlers EXCEPT ![s] = Len(tools) > 0]

\* connect() up to the polling loop: the double-connect check is the guard,
\* then this.#server.connect(transport) and attempt = 0.
ConnectBegin(s) ==
    /\ ~transport[s]
    /\ transport' = [transport EXCEPT ![s] = TRUE]
    /\ attempt' = [attempt EXCEPT ![s] = 0]
    /\ connectPc' = [connectPc EXCEPT ![s] = "poll"]

\* The messages of the errors connect() throws.
AlreadyConnected == "Server is already connected"

NotConnected == "Server did not connect"

\* What a rejected this.#server.listRoots() throws.
RootsRequestFailed == "roots/list failed"

\* Mutant of AfterLoop: connect() does not throw when the capabilities are
\* still unknown after the loop.
AfterLoopNoThrow(s, caps) ==
    /\ attempt' = [attempt EXCEPT ![s] = 0]
    /\ UNCHANGED thrown
    /\ IF caps.roots
       THEN /\ connectPc' = [connectPc EXCEPT ![s] = "roots"]
            /\ UNCHANGED << pingInterval, timers >>
       ELSE /\ connectPc' = [connectPc EXCEPT ![s] = "done"]
            /\ StartPingInterval(s)

\* Mutant of ConnectRejected: connect() has no double-connect check and runs
\* the handshake again.
ConnectRejectedRestarts(s) ==
    /\ transport[s]
    /\ connectPc[s] = "done"
    /\ connectPc' = [connectPc EXCEPT ![s] = "poll"]
    /\ UNCHANGED << tools, serverPc, thrown, toolHandlers, requests, lastSetLevel, pingTicks, pendingPings, calls, outbox,
                    sessions, serverEvents, endpoint, clientInit, transport, clientCapabilities,
                    attempt, pingInterval, timers, roots, loggingLevel, rootsChanges,
                    rootsRequests, sessionEvents >>

\* connect(transport) on a session whose this.#server.transport is set:
\* throw new UnexpectedStateError("Server is already connected").
ConnectRejected(s) ==
    /\ transport[s]
    /\ Len(thrown[s]) < MaxThrown
    /\ thrown' = [thrown EXCEPT ![s] = Append(@, AlreadyConnected)]
    /\ UNCHANGED << tools, serverPc, handlerVars, pingVars, toolVars, serverVars, endpoint,
                    clientInit, connectVars, roots, loggingLevel, rootsVars >>

\* What connect() does once the loop is left, with caps the value of
\* #clientCapabilities: throw, ask for the roots, or start the ping timer.
\* attempt is a local of connect() that is dead from here on: it is put back
\* to 0.
AfterLoop(s, caps) ==
    /\ attempt' = [attempt EXCEPT ![s] = 0]
    /\ IF ~caps.known
       THEN /\ connectPc' = [connectPc EXCEPT ![s] = "failed"]
            /\ thrown' = [thrown EXCEPT ![s] = Append(@, NotConnected)]
            /\ UNCHANGED << pingInterval, timers >>
       ELSE IF caps.roots
            THEN /\ connectPc' = [connectPc EXCEPT ![s] = "roots"]
                 /\ UNCHANGED << pingInterval, timers, thrown >>
            ELSE /\ connectPc' = [connectPc EXCEPT ![s] = "done"]
                 /\ StartPingInterval(s)
                 /\ UNCHANGED thrown

\* Mutant of ConnectPoll: the loop condition is attempt++ <= 10.
ConnectPollOnceMore(s) ==
    /\ connectPc[s] = "poll"
    /\ IF attempt[s] <= MaxAttempts
       THEN IF clientInit[s].known
            THEN /\ clientCapabilities' = [clientCapabilities EXCEPT ![s] = clientInit[s]]
                 /\ AfterLoop(s, clientInit[s])
            ELSE /\ attempt' = [attempt EXCEPT ![s] = @ + 1]
                 /\ UNCHANGED << clientCapabilities, connectPc, pingInterval, timers, thrown >>
       ELSE /\ UNCHANGED clientCapabilities
            /\ AfterLoop(s, clientCapabilities[s])
    /\ UNCHANGED << tools, serverPc, toolHandlers, requests, lastSetLevel, pingTicks, pendingPings,
                    calls, outbox, sessions, serverEvents, endpoint, transport, clientInit, roots,
                    loggingLevel, rootsChanges, rootsRequests, sessionEvents >>

\* One evaluation of while (attempt++ < 10) and, when it holds, one pass of
\* the body: getClientCapabilities(), then break or delay(100).
ConnectPoll(s) ==
    /\ connectPc[s] = "poll"
    /\ IF attempt[s] < MaxAttempts
       THEN IF clientInit[s].known
            THEN /\ clientCapabilities' = [clientCapabilities EXCEPT ![s] = clientInit[s]]
                 /\ AfterLoop(s, clientInit[s])
            ELSE /\ attempt' = [attempt EXCEPT ![s] = @ + 1]
                 /\ UNCHANGED << clientCapabilities, connectPc, pingInterval, timers, thrown >>
       ELSE /\ UNCHANGED clientCapabilities
            /\ AfterLoop(s, clientCapabilities[s])
    /\ UNCHANGED << tools, serverPc, handlerVars, pingVars, toolVars, serverVars, endpoint, transport, clientInit, roots,
                    loggingLevel, rootsVars >>

\* Mutant of ConnectRootsResult: the answer is awaited but not stored.
ConnectRootsResultDropped(s, r) ==
    /\ connectPc[s] = "roots"
    /\ StartPingInterval(s)
    /\ connectPc' = [connectPc EXCEPT ![s] = "done"]
    /\ UNCHANGED << tools, serverPc, thrown, toolHandlers, requests, lastSetLevel, pingTicks,
                    pendingPings, calls, outbox, sessions, serverEvents, endpoint, transport,
                    clientInit, clientCapabilities, attempt, roots, loggingLevel, rootsChanges,
                    rootsRequests, sessionEvents >>

\* The roots/list request of connect() is answered with list r.
ConnectRootsResult(s, r) ==
    /\ connectPc[s] = "roots"
    /\ roots' = [roots EXCEPT ![s] = r]
    /\ StartPingInterval(s)
    /\ connectPc' = [connectPc EXCEPT ![s] = "done"]
    /\ UNCHANGED << tools, hostVars, handlerVars, pingVars, toolVars, serverVars, endpoint, transport, clientInit,
                    clientCapabilities, attempt, loggingLevel, rootsVars >>

\* The roots/list request of connect() fails: connect() throws.
ConnectRootsFailed(s) ==
    /\ connectPc[s] = "roots"
    /\ connectPc' = [connectPc EXCEPT ![s] = "failed"]
    /\ thrown' = [thrown EXCEPT ![s] = Append(@, RootsRequestFailed)]
    /\ UNCHANGED << tools, serverPc, handlerVars, pingVars, toolVars, serverVars, endpoint, transport, clientInit,
                    clientCapabilities, attempt, roots, loggingLevel,
                    pingInterval, timers, rootsVars >>

\* FastMCPSession.close(): clearInterval(#pingInterval) when it is set, then
\* this.#server.close().
SessionClose(s) ==
    /\ timers' = [timers EXCEPT ![s] = IF pingInterval[s] # 0 THEN @ \ { pingInterval[s] } ELSE @]
    /\ transport' = [transport EXCEPT ![s] = FALSE]

\* ------------------------------------------------------------------ client

\* The client's initialize request reaches the SDK server, which from then on
\* answers getClientCapabilities() with caps.
ClientInitialize(s, caps) ==
    /\ transport[s]
    /\ ~clientInit[s].known
    /\ clientInit' = [clientInit EXCEPT ![s] = caps]
    /\ UNCHANGED << tools, hostVars, handlerVars, pingVars, toolVars, serverVars, endpoint, connectVars, roots, loggingLevel, rootsVars >>

\* A client sends requests and notifications once it has initialized, over
\* the transport attached to the session.
CanReceive(s) == transport[s] /\ clientInit[s].known

\* ------------------------------------------------- logging and roots handlers

\* Mutant of SetLevel: the level is kept in one place for all sessions.
SetLevelShared(s, level) ==
    /\ transport[s] /\ clientInit[s].known
    /\ loggingLevel' = [t \in Sessions |-> level]
    /\ UNCHANGED << tools, hostVars, handlerVars, pingTicks, pendingPings, calls, outbox, sessions, serverEvents, endpoint,
                    clientInit, transport, clientCapabilities, connectPc, attempt, pingInterval,
                    timers, roots, rootsChanges, rootsRequests, sessionEvents >>

\* Mutant of SetLevel: a request for a less verbose level than "debug" is
\* acknowledged but not stored.
SetLevelDebugOnly(s, level) ==
    /\ transport[s] /\ clientInit[s].known
    /\ loggingLevel' = [loggingLevel EXCEPT ![s] = IF level = "debug" THEN level ELSE @]
    /\ lastSetLevel' = [lastSetLevel EXCEPT ![s] = [level |-> level, result |-> <<>>]]
    /\ UNCHANGED << tools, serverPc, thrown, toolHandlers, requests, pingTicks, pendingPings, calls,
                    outbox, sessions, serverEvents, endpoint, clientInit, transport,
                    clientCapabilities, connectPc, attempt, pingInterval, timers, roots,
                    rootsChanges, rootsRequests, sessionEvents >>

\* setupLoggingHandlers: the logging/setLevel request handler.
SetLevel(s, level) ==
    /\ CanReceive(s)
    /\ loggingLevel' = [loggingLevel EXCEPT ![s] = level]
    /\ lastSetLevel' = [lastSetLevel EXCEPT ![s] = [level |-> level, result |-> EmptyResult]]
    /\ UNCHANGED << tools, hostVars, toolHandlers, requests, pingVars, toolVars, serverVars, endpoint, clientInit, connectVars, roots, rootsVars >>

\* setupRootsHandlers: the roots/list_changed notification handler calls
\* this.#server.listRoots().
RootsListChangedWithin(s, max) ==
    /\ CanReceive(s)
    /\ rootsChanges < max
    /\ rootsChanges' = rootsChanges + 1
    /\ rootsRequests' = [rootsRequests EXCEPT ![s] = @ + 1]
    /\ UNCHANGED << tools, hostVars, handlerVars, pingVars, toolVars, serverVars, endpoint, clientInit, connectVars, roots,
                    loggingLevel, sessionEvents >>

RootsListChanged(s) == RootsListChangedWithin(s, MaxRootsChanges)

\* Mutant of RootsRefetched: the list of a fetch that completes while another
\* fetch is outstanding is announced but not stored.
RootsRefetchedLatestOnly(s, r) ==
    /\ rootsRequests[s] > 0
    /\ rootsRequests' = [rootsRequests EXCEPT ![s] = @ - 1]
    /\ roots' = [roots EXCEPT ![s] =
           IF rootsRequests[s] > 1 \/ connectPc[s] = "roots" THEN @ ELSE r]
    /\ sessionEvents' = [sessionEvents EXCEPT ![s] = Append(@, [type |-> "rootsChanged", roots |-> r])]
    /\ UNCHANGED << tools, serverPc, thrown, toolHandlers, requests, lastSetLevel, pingTicks,
                    pendingPings, calls, outbox, sessions, serverEvents, endpoint, clientInit,
                    transport, clientCapabilities, connectPc, attempt, pingInterval, timers,
                    loggingLevel, rootsChanges >>

\* Mutant of RootsRefetched: the fetched list is appended to the roots.
RootsRefetchedAppends(s, r) ==
    /\ rootsRequests[s] > 0
    /\ rootsRequests' = [rootsRequests EXCEPT ![s] = @ - 1]
    /\ roots' = [roots EXCEPT ![s] = @ \o r]
    /\ sessionEvents' = [sessionEvents EXCEPT ![s] = Append(@, [type |-> "rootsChanged", roots |-> r])]
    /\ UNCHANGED << tools, hostVars, handlerVars, pingTicks, pendingPings, calls, outbox, sessions, serverEvents, endpoint,
                    clientInit, transport, clientCapabilities, connectPc, attempt, pingInterval,
                    timers, loggingLevel, rootsChanges >>

\* The .then() of the handler's listRoots(): the fetch completed with list r.
RootsRefetched(s, r) ==
    /\ rootsRequests[s] > 0
    /\ rootsRequests' = [rootsRequests EXCEPT ![s] = @ - 1]
    /\ roots' = [roots EXCEPT ![s] = r]
    /\ sessionEvents' = [sessionEvents EXCEPT ![s] = Append(@, [type |-> "rootsChanged", roots |-> r])]
    /\ UNCHANGED << tools, hostVars, handlerVars, pingVars, toolVars, serverVars, endpoint, clientInit, connectVars,
                    loggingLevel, rootsChanges >>

\* Mutant of RootsRefetchFailed: the rejection is caught and announced as the
\* liveness ping announces its failures.
RootsRefetchFailedEmitsError(s) ==
    /\ rootsRequests[s] > 0
    /\ rootsRequests' = [rootsRequests EXCEPT ![s] = @ - 1]
    /\ sessionEvents' = [sessionEvents EXCEPT ![s] = Append(@, [type |-> "error"])]
    /\ UNCHANGED << tools, serverPc, thrown, toolHandlers, requests, lastSetLevel, pingTicks,
                    pendingPings, calls, outbox, sessions, serverEvents, endpoint, clientInit,
                    transport, clientCapabilities, connectPc, attempt, pingInterval, timers,
                    roots, loggingLevel, rootsChanges >>

\* The handler's listRoots() rejects: no .catch(), nothing happens.
RootsRefetchFailed(s) ==
    /\ rootsRequests[s] > 0
    /\ rootsRequests' = [rootsRequests EXCEPT ![s] = @ - 1]
    /\ UNCHANGED << tools, hostVars, handlerVars, pingVars, toolVars, serverVars, endpoint, clientInit, connectVars, roots,
                    loggingLevel, rootsChanges, sessionEvents >>

\* ------------------------------------------------------------ liveness ping

\* The setInterval callback of connect() runs for live timer t: it calls
\* this.#server.ping().
PingTick(s, t) ==
    /\ t \in timers[s]
    /\ pingTicks < MaxPingTicks
    /\ pingTicks' = pingTicks + 1
    /\ pendingPings' = [pendingPings EXCEPT ![s] = @ + 1]
    /\ UNCHANGED << tools, hostVars, handlerVars, toolVars, serverVars, endpoint, clientInit, connectVars,
                    roots, loggingLevel, rootsVars >>

\* await this.#server.ping() returns: the callback ends.
PingAnswered(s) ==
    /\ pendingPings[s] > 0
    /\ pendingPings' = [pendingPings EXCEPT ![s] = @ - 1]
    /\ UNCHANGED << tools, hostVars, handlerVars, toolVars, serverVars, endpoint, clientInit, connectVars,
                    roots, loggingLevel, rootsVars, pingTicks >>

\* Mutant of PingFailed: a failed ping also closes the session.
PingFailedCloses(s) ==
    /\ pendingPings[s] > 0
    /\ pendingPings' = [pendingPings EXCEPT ![s] = @ - 1]
    /\ sessionEvents' = [sessionEvents EXCEPT ![s] = Append(@, [type |-> "error"])]
    /\ timers' = [timers EXCEPT ![s] = IF pingInterval[s] # 0 THEN @ \ { pingInterval[s] } ELSE @]
    /\ transport' = [transport EXCEPT ![s] = FALSE]
    /\ UNCHANGED << tools, hostVars, handlerVars, calls, outbox, sessions, serverEvents, endpoint, clientInit,
                    clientCapabilities, connectPc, attempt, pingInterval,
                    roots, loggingLevel, rootsChanges, rootsRequests, pingTicks >>

\* await this.#server.ping() throws: the catch block emits "error".
PingFailed(s) ==
    /\ pendingPings[s] > 0
    /\ pendingPings' = [pendingPings EXCEPT ![s] = @ - 1]
    /\ sessionEvents' = [sessionEvents EXCEPT ![s] = Append(@, [type |-> "error"])]
    /\ UNCHANGED << tools, hostVars, handlerVars, toolVars, serverVars, endpoint, clientInit, connectVars,
                    roots, loggingLevel, rootsChanges, rootsRequests, pingTicks >>

\* ------------------------------------------------------ content-result model

\* TextContentZodSchema (strict)
IsTextContent(c) == DOMAIN c = { "type", "text" } /\ c.type = "text"

\* z.string().base64(), over the data values of the model
IsBase64(d) == d \in { "", "aGVsbG8=" }

\* ImageContentZodSchema (strict)
IsImageContent(c) ==
    /\ DOMAIN c = { "type", "data", "mimeType" }
    /\ c.type = "image"
    /\ IsBase64(c.data)

\* ContentZodSchema: the discriminated union on "type"
IsContent(c) == IsTextContent(c) \/ IsImageContent(c)

\* ContentResultZodSchema.parse(r) succeeds
IsContentResult(r) ==
    /\ "content" \in DOMAIN r
    /\ DOMAIN r \subseteq { "content", "isError" }
    /\ \A k \in 1 .. Len(r.content) : IsContent(r.content[k])

\* Mutant of Shaped: the branch for a single content object is missing.
ShapedNoWrap(v) ==
    IF v.kind = "string"
    THEN [content |-> << [type |-> "text", text |-> v.text] >>]
    ELSE IF v.kind = "content"
         THEN v.content
         ELSE v.result

\* The normalization of what execute resolved with, before the parse.
Shaped(v) ==
    IF v.kind = "string"
    THEN [content |-> << [type |-> "text", text |-> v.text] >>]
    ELSE IF v.kind = "content"
         THEN [content |-> << v.content >>]
         ELSE v.result

\* `${error}` of an Error: its name, ": ", its message.
ErrorToString(e) == e.name \o ": " \o e.message

\* The catch block of the CallTool handler.
CaughtResult(e) ==
    IF e.isUserError
    THEN [content |-> << [type |-> "text", text |-> e.message] >>, isError |-> TRUE]
    ELSE [content |-> << [type |-> "text", text |-> "Error: " \o ErrorToString(e)] >>, isError |-> TRUE]

\* The error ContentResultZodSchema.parse throws.
ZodError == [name |-> "ZodError", message |-> "invalid content result", isUserError |-> FALSE]

\* ------------------------------------------------------------ tools/call

\* What the session hands to this.#server in answer to request id.
ErrorResponse(id, code, message) == [kind |-> "error", id |-> id, code |-> code, message |-> message]

ResultResponse(id, result) == [kind |-> "result", id |-> id, result |-> result]

Notification(method, params) == [kind |-> "notification", method |-> method, params |-> params]

\* Mutant of FindTool: falls back to the first tool when none has the name.
FindToolOrFirst(name) ==
    IF \E k \in 1 .. Len(tools) : tools[k].name = name
    THEN CHOOSE k \in 1 .. Len(tools) : tools[k].name = name
    ELSE IF Len(tools) > 0 THEN 1 ELSE 0

\* Mutant of FindTool: the last tool of the name is taken.
FindToolLast(name) ==
    IF \E k \in 1 .. Len(tools) : tools[k].name = name
    THEN CHOOSE k \in 1 .. Len(tools) :
             /\ tools[k].name = name
             /\ \A j \in k + 1 .. Len(tools) : tools[j].name # name
    ELSE 0

\* tools.find((tool) => tool.name === name): the first index, 0 when none.
FindTool(name) ==
    IF \E k \in 1 .. Len(tools) : tools[k].name = name
    THEN CHOOSE k \in 1 .. Len(tools) :
             /\ tools[k].name = name
             /\ \A j \in 1 .. k - 1 : tools[j].name # name
    ELSE 0

\* tool.parameters.safeParse(arguments)
SafeParse(schema, arguments) == [success |-> arguments \in schema, data |-> arguments]

\* The protocol error thrown when the arguments fail the tool's schema.
InvalidArguments(name) == [code |-> "InvalidRequest", message |-> "Invalid " \o name \o " arguments"]

\* The protocol error thrown when no tool has the name.
UnknownTool(name) == [code |-> "MethodNotFound", message |-> "Unknown tool: " \o name]

\* The SDK's own answer to a request no handler is registered for: the
\* constructor calls setupToolHandlers only if (tools.length).
NoHandler == [code |-> "MethodNotFound", message |-> "Method not found"]

\* Mutant of CallToolRejection: the tools/call handler is installed on every
\* session, whatever the registry held when the session was created.
CallToolRejectionAnySession(s, name, arguments) ==
    IF FindTool(name) = 0
    THEN UnknownTool(name)
    ELSE IF /\ tools[FindTool(name)].hasParameters
            /\ ~SafeParse(tools[FindTool(name)].parameters, arguments).success
         THEN InvalidArguments(name)
         ELSE [code |-> "none", message |-> ""]

\* The CallTool handler before execute: the thrown protocol error, or
\* "none" when the handler goes on to execute.
CallToolRejection(s, name, arguments) ==
    IF ~toolHandlers[s]
    THEN NoHandler
    ELSE IF FindTool(name) = 0
         THEN UnknownTool(name)
         ELSE IF /\ tools[FindTool(name)].hasParameters
                 /\ ~SafeParse(tools[FindTool(name)].parameters, arguments).success
              THEN InvalidArguments(name)
              ELSE [code |-> "none", message |-> ""]

\* A tools/call request arrives: lookup, validation, then either the
\* protocol error or the start of tool.execute(args, context).
CallTool(s, name, arguments, token) ==
    /\ CanReceive(s)
    /\ Len(calls[s]) < MaxCalls
    /\ LET id == Len(calls[s]) + 1
           rejection == CallToolRejection(s, name, arguments)
           call == [name |-> name, arguments |-> arguments, progressToken |-> token,
                    tool |-> IF rejection.code = "none" THEN FindTool(name) ELSE 0,
                    status |-> IF rejection.code = "none" THEN "executing" ELSE "rejected"]
       IN /\ calls' = [calls EXCEPT ![s] = Append(@, call)]
          /\ outbox' = [outbox EXCEPT ![s] =
                 IF rejection.code = "none"
                 THEN @
                 ELSE Append(@, ErrorResponse(id, rejection.code, rejection.message))]
    /\ UNCHANGED << tools, hostVars, handlerVars, pingVars, serverVars, endpoint, clientInit, connectVars,
                    roots, loggingLevel, rootsVars >>

\* FastMCP.addTool(tool): this.#tools.push(tool).  Every session was handed
\* this same array.
addTool(tool) ==
    /\ Len(tools) < MaxTools
    /\ tools' = Append(tools, tool)
    /\ UNCHANGED << hostVars, handlerVars, pingVars, toolVars, serverVars, endpoint, clientInit,
                    connectVars, roots, loggingLevel, rootsVars >>

\* The ListTools handler's answer: the names of the tools, in order; the
\* SDK's MethodNotFound when the session has no tool handlers.
ListTools(s) ==
    IF ~toolHandlers[s]
    THEN NoHandler
    ELSE [tools |-> [k \in 1 .. Len(tools) |-> tools[k].name]]

\* The notifications the tools of session s caused so far.
ContextCalls(s) == Len(SelectSeq(outbox[s], LAMBDA m : m.kind = "notification"))

\* Mutant of ProgressNotification: the progressToken is left out.
ProgressNotificationNoToken(progress, token) ==
    [kind |-> "notification", method |-> "notifications/progress", params |-> progress]

\* notifications/progress as reportProgress builds it: { ...progress, progressToken }
ProgressNotification(progress, token) ==
    Notification("notifications/progress", [progressToken |-> token] @@ progress)

\* Mutant of ReportProgress: the token is kept in one place per session, so
\* the token of the request received last is sent.
ReportProgressLatestToken(s, i, progress) ==
    /\ i \in 1 .. Len(calls[s])
    /\ calls[s][i].status = "executing"
    /\ ContextCalls(s) < MaxContextCalls
    /\ outbox' = [outbox EXCEPT ![s] =
           Append(@, ProgressNotification(progress, calls[s][Len(calls[s])].progressToken))]
    /\ UNCHANGED << tools, serverPc, thrown, toolHandlers, requests, lastSetLevel, pingTicks,
                    pendingPings, calls, sessions, serverEvents, endpoint, clientInit, transport,
                    clientCapabilities, connectPc, attempt, pingInterval, timers, roots,
                    loggingLevel, rootsChanges, rootsRequests, sessionEvents >>

\* context.reportProgress(progress), called by the execute of call i.
ReportProgress(s, i, progress) ==
    /\ i \in 1 .. Len(calls[s])
    /\ calls[s][i].status = "executing"
    /\ ContextCalls(s) < MaxContextCalls
    /\ outbox' = [outbox EXCEPT ![s] = Append(@, ProgressNotification(progress, calls[s][i].progressToken))]
    /\ UNCHANGED << tools, hostVars, handlerVars, pingVars, calls, serverVars, endpoint, clientInit, connectVars,
                    roots, loggingLevel, rootsVars >>

\* Mutant of WireLevel: every function passes its own name.
WireLevelSame(fn) == fn

\* The level each function of context.log passes to sendLoggingMessage.
WireLevel(fn) == IF fn = "warn" THEN "warning" ELSE fn

\* notifications/message as sendLoggingMessage sends it.
LoggingMessage(fn, message) ==
    Notification("notifications/message", [level |-> WireLevel(fn), data |-> [message |-> message]])

\* Mutant of Log: a message less severe than the session's loggingLevel is
\* not sent.
LogAboveLevel(s, i, fn) ==
    /\ i \in 1 .. Len(calls[s])
    /\ calls[s][i].status = "executing"
    /\ ContextCalls(s) < MaxContextCalls
    /\ LET severity == [debug |-> 0, info |-> 1, warning |-> 2, error |-> 3]
       IN  severity[WireLevel(fn)] >= severity[loggingLevel[s]]
    /\ outbox' = [outbox EXCEPT ![s] = Append(@, LoggingMessage(fn, fn \o " message"))]
    /\ UNCHANGED << tools, serverPc, thrown, toolHandlers, requests, lastSetLevel, pingTicks,
                    pendingPings, calls, sessions, serverEvents, endpoint, clientInit, transport,
                    clientCapabilities, connectPc, attempt, pingInterval, timers, roots,
                    loggingLevel, rootsChanges, rootsRequests, sessionEvents >>

\* context.log.<fn>(message), called by the execute of call i.
Log(s, i, fn) ==
    /\ i \in 1 .. Len(calls[s])
    /\ calls[s][i].status = "executing"
    /\ ContextCalls(s) < MaxContextCalls
    /\ outbox' = [outbox EXCEPT ![s] = Append(@, LoggingMessage(fn, fn \o " message"))]
    /\ UNCHANGED << tools, hostVars, handlerVars, pingVars, calls, serverVars, endpoint, clientInit, connectVars,
                    roots, loggingLevel, rootsVars >>

\* The TypeError that "type" in maybeStringResult throws when the value is a
\* number.
InOperatorError ==
    [name |-> "TypeError", message |-> "Cannot use 'in' operator to search for 'type' in 3",
     isUserError |-> FALSE]

\* Mutant of ResolvedResult: the normalized value is returned without
\* ContentResultZodSchema.parse.
ResolvedResultUnparsed(v) ==
    IF v.kind = "number"
    THEN CaughtResult(InOperatorError)
    ELSE Shaped(v)

\* The handler's result once execute resolved with v: the normalized value,
\* or the catch block's envelope when the in operator or the parse throws.
ResolvedResult(v) ==
    IF v.kind = "number"
    THEN CaughtResult(InOperatorError)
    ELSE IF IsContentResult(Shaped(v)) THEN Shaped(v) ELSE CaughtResult(ZodError)

\* Mutant of ExecuteResolves: a call is answered only once every earlier call
\* of the session has been answered.
ExecuteResolvesInOrder(s, i, v) ==
    /\ i \in 1 .. Len(calls[s])
    /\ calls[s][i].status = "executing"
    /\ \A k \in 1 .. i - 1 : calls[s][k].status # "executing"
    /\ calls' = [calls EXCEPT ![s][i].status = "resolved"]
    /\ outbox' = [outbox EXCEPT ![s] = Append(@, [kind |-> "result", id |-> i, result |-> ResolvedResult(v)])]
    /\ UNCHANGED << tools, hostVars, handlerVars, pingTicks, pendingPings, sessions, serverEvents,
                    endpoint, clientInit, transport, clientCapabilities, connectPc, attempt,
                    pingInterval, timers, roots, loggingLevel, rootsChanges, rootsRequests,
                    sessionEvents >>

\* Mutant of ExecuteResolves: an execution is dropped once the session's
\* transport is gone.
ExecuteResolvesWhileAttached(s, i, v) ==
    /\ transport[s]
    /\ i \in 1 .. Len(calls[s])
    /\ calls[s][i].status = "executing"
    /\ calls' = [calls EXCEPT ![s][i].status = "resolved"]
    /\ outbox' = [outbox EXCEPT ![s] = Append(@, [kind |-> "result", id |-> i, result |-> ResolvedResult(v)])]
    /\ UNCHANGED << tools, serverPc, thrown, toolHandlers, requests, lastSetLevel, pingTicks,
                    pendingPings, sessions, serverEvents, endpoint, clientInit, transport,
                    clientCapabilities, connectPc, attempt, pingInterval, timers, roots,
                    loggingLevel, rootsChanges, rootsRequests, sessionEvents >>

\* execute of call i resolves with v.
ExecuteResolves(s, i, v) ==
    /\ i \in 1 .. Len(calls[s])
    /\ calls[s][i].status = "executing"
    /\ calls' = [calls EXCEPT ![s][i].status = "resolved"]
    /\ outbox' = [outbox EXCEPT ![s] = Append(@, ResultResponse(i, ResolvedResult(v)))]
    /\ UNCHANGED << tools, hostVars, handlerVars, pingVars, serverVars, endpoint, clientInit, connectVars,
                    roots, loggingLevel, rootsVars >>

\* Mutant of ExecuteThrows: only a UserError becomes a result, any other
\* error is rethrown as a protocol error.
ExecuteRethrows(s, i, e) ==
    /\ i \in 1 .. Len(calls[s])
    /\ calls[s][i].status = "executing"
    /\ calls' = [calls EXCEPT ![s][i].status = "threw"]
    /\ outbox' = [outbox EXCEPT ![s] = Append(@,
           IF e.isUserError
           THEN [kind |-> "result", id |-> i,
                 result |-> [content |-> << [type |-> "text", text |-> e.message] >>, isError |-> TRUE]]
           ELSE [kind |-> "error", id |-> i, code |-> "InternalError", message |-> e.message])]
    /\ UNCHANGED << tools, hostVars, handlerVars, pingTicks, pendingPings, sessions, serverEvents, endpoint, clientInit,
                    transport, clientCapabilities, connectPc, attempt, pingInterval, timers,
                    roots, loggingLevel, rootsChanges, rootsRequests, sessionEvents >>

\* execute of call i throws e.
ExecuteThrows(s, i, e) ==
    /\ i \in 1 .. Len(calls[s])
    /\ calls[s][i].status = "executing"
    /\ calls' = [calls EXCEPT ![s][i].status = "threw"]
    /\ outbox' = [outbox EXCEPT ![s] = Append(@, ResultResponse(i, CaughtResult(e)))]
    /\ UNCHANGED << tools, hostVars, handlerVars, pingVars, serverVars, endpoint, clientInit, connectVars,
                    roots, loggingLevel, rootsVars >>

\* ------------------------------------------------------------- prompts/get

\* A prompt of the registry: name, hasArguments (the prompt declares
\* arguments) and arguments, each with its name and its required flag.
GitCommitPrompt ==
    [name |-> "git-commit", hasArguments |-> TRUE,
     arguments |-> << [name |-> "changes", required |-> TRUE],
                      [name |-> "style", required |-> FALSE],
                      [name |-> "scope", required |-> TRUE] >>]

GreetingPrompt == [name |-> "greeting", hasArguments |-> FALSE, arguments |-> <<>>]

\* A second prompt registered under the name "greeting", with a required
\* argument.
GreetingDuplicate ==
    [name |-> "greeting", hasArguments |-> TRUE,
     arguments |-> << [name |-> "who", required |-> TRUE] >>]

\* The prompts handed to the sessions.
prompts == << GitCommitPrompt, GreetingPrompt, GreetingDuplicate >>

\* Prompt names a client may ask for.
PromptNames == { "git-commit", "greeting", "missing" }

\* request.params.arguments: undefined, or an object with some of the keys.
PromptArguments ==
    { [present |-> FALSE, names |-> {}] }
        \cup { [present |-> TRUE, names |-> S] : S \in SUBSET { "changes", "style", "scope" } }

\* What a prompt's load may resolve with.
PromptTexts == { "Generate a commit message" }

\* prompts.find((prompt) => prompt.name === request.params.name): the first
\* index, 0 when none.
FindPrompt(name) ==
    IF \E k \in 1 .. Len(prompts) : prompts[k].name = name
    THEN CHOOSE k \in 1 .. Len(prompts) :
             /\ prompts[k].name = name
             /\ \A j \in 1 .. k - 1 : prompts[j].name # name
    ELSE 0

\* arg.required && !(args && arg.name in args)
IsMissing(arg, args) == arg.required /\ ~(args.present /\ arg.name \in args.names)

\* The for loop over prompt.arguments from index k on: the index of the
\* argument it throws for, 0 when it throws for none.
RECURSIVE MissingArgument(_, _, _)
MissingArgument(arguments, args, k) ==
    IF k > Len(arguments)
    THEN 0
    ELSE IF IsMissing(arguments[k], args)
         THEN k
         ELSE MissingArgument(arguments, args, k + 1)

\* The GetPrompt handler before load: the thrown protocol error, or "none"
\* when the handler goes on to load.
GetPromptRejection(name, args) ==
    IF FindPrompt(name) = 0
    THEN [code |-> "MethodNotFound", message |-> "Unknown prompt: " \o name]
    ELSE LET prompt == prompts[FindPrompt(name)]
             k == IF prompt.hasArguments THEN MissingArgument(prompt.arguments, args, 1) ELSE 0
         IN  IF k # 0
             THEN [code |-> "InvalidRequest",
                   message |-> "Missing required argument: " \o prompt.arguments[k].name]
             ELSE [code |-> "none", message |-> ""]

\* The request has no answer yet.
NoResponse == [kind |-> "none"]

\* A prompts/get request arrives: lookup, the required-argument check, then
\* either the protocol error or the call of prompt.load(args).
GetPrompt(s, name, args) ==
    /\ CanReceive(s)
    /\ Len(requests[s]) < MaxRequests
    /\ LET id == Len(requests[s]) + 1
           rejection == GetPromptRejection(name, args)
           request == [method |-> "prompts/get", name |-> name, arguments |-> args,
                       definition |-> IF rejection.code = "none" THEN FindPrompt(name) ELSE 0,
                       loads |-> IF rejection.code = "none" THEN 1 ELSE 0,
                       response |-> IF rejection.code = "none"
                                    THEN NoResponse
                                    ELSE ErrorResponse(id, rejection.code, rejection.message)]
       IN requests' = [requests EXCEPT ![s] = Append(@, request)]
    /\ UNCHANGED << tools, hostVars, toolHandlers, lastSetLevel, pingVars, toolVars, serverVars,
                    endpoint, clientInit, connectVars, roots, loggingLevel, rootsVars >>

\* The handler's result once load resolved with text.
PromptResult(name, text) ==
    [messages |-> << [role |-> "user", content |-> [type |-> "text", text |-> text]] >>]

\* prompt.load of request i resolves with text.
PromptLoaded(s, i, text) ==
    /\ i \in 1 .. Len(requests[s])
    /\ requests[s][i].method = "prompts/get"
    /\ requests[s][i].loads = 1
    /\ requests[s][i].response = NoResponse
    /\ requests' = [requests EXCEPT ![s][i].response = ResultResponse(i, PromptResult(requests[s][i].name, text))]
    /\ UNCHANGED << tools, hostVars, toolHandlers, lastSetLevel, pingVars, toolVars, serverVars,
                    endpoint, clientInit, connectVars, roots, loggingLevel, rootsVars >>

\* prompt.load of request i throws e: McpError(ErrorCode.InternalError, ...).
PromptLoadFailed(s, i, e) ==
    /\ i \in 1 .. Len(requests[s])
    /\ requests[s][i].method = "prompts/get"
    /\ requests[s][i].loads = 1
    /\ requests[s][i].response = NoResponse
    /\ requests' = [requests EXCEPT ![s][i].response =
           ErrorResponse(i, "InternalError", "Error loading prompt: " \o ErrorToString(e))]
    /\ UNCHANGED << tools, hostVars, toolHandlers, lastSetLevel, pingVars, toolVars, serverVars,
                    endpoint, clientInit, connectVars, roots, loggingLevel, rootsVars >>

\* ----------------------------------------------------------- resources/read

\* A resource of the registry: uri, name and mimeType.
AppLogResource ==
    [uri |-> "file:///logs/app.log", name |-> "Application Logs", mimeType |-> "text/plain"]

LogoResource ==
    [uri |-> "file:///images/logo.png", name |-> "Logo", mimeType |-> "image/png"]

\* A second resource registered under the uri of the first.
AppLogDuplicate ==
    [uri |-> "file:///logs/app.log", name |-> "Old Application Logs", mimeType |-> "text/html"]

\* The resources handed to the sessions.
resources == << AppLogResource, LogoResource, AppLogDuplicate >>

\* request.params.uri of the resources/read requests a client may send: the
\* two registered uris, one that only a template "file:///logs/{name}.log"
\* would match, and one that nothing matches.
ResourceUris ==
    { "file:///logs/app.log", "file:///images/logo.png", "file:///logs/error.log",
      "file:///missing" }

\* What a resource's load may resolve with: one payload with a text or with
\* a blob, or an array of payloads.
LoadResults ==
    { [kind |-> "payload", payload |-> [text |-> "Example log content"]],
      [kind |-> "payload", payload |-> [blob |-> "aGVsbG8="]],
      [kind |-> "array", payloads |-> << [text |-> "a"], [text |-> "b"] >>] }

\* Mutant of FindResource: an unknown uri falls back to the first resource.
FindResourceOrFirst(uri) ==
    IF \E k \in 1 .. Len(resources) : resources[k].uri = uri
    THEN CHOOSE k \in 1 .. Len(resources) :
             /\ resources[k].uri = uri
             /\ \A j \in 1 .. k - 1 : resources[j].uri # uri
    ELSE 1

\* resources.find((resource) => resource.uri === request.params.uri): the
\* first index, 0 when none.
FindResource(uri) ==
    IF \E k \in 1 .. Len(resources) : resources[k].uri = uri
    THEN CHOOSE k \in 1 .. Len(resources) :
             /\ resources[k].uri = uri
             /\ \A j \in 1 .. k - 1 : resources[j].uri # uri
    ELSE 0

\* The key under which ...result copies element k of an array: its index,
\* counted from 0, as a string.
IndexKey(k) == CHOOSE key \in { "0", "1", "2" } :
                   \/ k = 1 /\ key = "0"
                   \/ k = 2 /\ key = "1"
                   \/ k = 3 /\ key = "2"

\* { uri: resource.uri, mimeType: resource.mimeType, ...result }: the own
\* enumerable properties of result are copied into the entry.  Those of a
\* payload are its text or its blob; those of an array are its elements
\* under their indexes.
Spread(resource, result) ==
    LET own == IF result.kind = "payload"
               THEN DOMAIN result.payload
               ELSE { IndexKey(k) : k \in 1 .. Len(result.payloads) }
    IN  [key \in { "uri", "mimeType" } \cup own |->
            IF key = "uri" THEN [kind |-> "string", value |-> resource.uri]
            ELSE IF key = "mimeType" THEN [kind |-> "string", value |-> resource.mimeType]
            ELSE IF result.kind = "payload"
                 THEN [kind |-> "string", value |-> result.payload[key]]
                 ELSE [kind |-> "object",
                       value |-> result.payloads[CHOOSE k \in 1 .. Len(result.payloads) : IndexKey(k) = key]]]

\* The handler's result once load resolved with result.
ReadResourceResult(resource, result) == [contents |-> << Spread(resource, result) >>]

\* An error answer that carries data.
ErrorResponseWithData(id, code, message, data) ==
    [kind |-> "error", id |-> id, code |-> code, message |-> message, data |-> data]

\* A resources/read request arrives: the lookup, then either the protocol
\* error or the call of resource.load().
ReadResource(s, uri) ==
    /\ CanReceive(s)
    /\ Len(requests[s]) < MaxRequests
    /\ LET id == Len(requests[s]) + 1
           k == FindResource(uri)
           request == [method |-> "resources/read", name |-> uri, arguments |-> <<>>,
                       definition |-> k,
                       loads |-> IF k # 0 THEN 1 ELSE 0,
                       response |-> IF k # 0
                                    THEN NoResponse
                                    ELSE ErrorResponse(id, "MethodNotFound", "Unknown resource: " \o uri)]
       IN requests' = [requests EXCEPT ![s] = Append(@, request)]
    /\ UNCHANGED << tools, hostVars, toolHandlers, lastSetLevel, pingVars, toolVars, serverVars,
                    endpoint, clientInit, connectVars, roots, loggingLevel, rootsVars >>

\* resource.load() of request i resolves with result.
ResourceLoaded(s, i, result) ==
    /\ i \in 1 .. Len(requests[s])
    /\ requests[s][i].method = "resources/read"
    /\ requests[s][i].loads = 1
    /\ requests[s][i].response = NoResponse
    /\ requests' = [requests EXCEPT ![s][i].response =
           ResultResponse(i, ReadResourceResult(resources[FindResource(requests[s][i].name)], result))]
    /\ UNCHANGED << tools, hostVars, toolHandlers, lastSetLevel, pingVars, toolVars, serverVars,
                    endpoint, clientInit, connectVars, roots, loggingLevel, rootsVars >>

\* Mutant of ResourceLoadFailed: the McpError is built without the caught
\* error and without the data.
ResourceLoadFailedBare(s, i, e) ==
    /\ i \in 1 .. Len(requests[s])
    /\ requests[s][i].method = "resources/read"
    /\ requests[s][i].loads = 1
    /\ requests[s][i].response = NoResponse
    /\ requests' = [requests EXCEPT ![s][i].response =
           ErrorResponse(i, "InternalError", "Error reading resource")]
    /\ UNCHANGED << tools, serverPc, thrown, toolHandlers, lastSetLevel, pingTicks, pendingPings,
                    calls, outbox, sessions, serverEvents, endpoint, clientInit, transport,
                    clientCapabilities, connectPc, attempt, pingInterval, timers, roots,
                    loggingLevel, rootsChanges, rootsRequests, sessionEvents >>

\* resource.load() of request i throws e: McpError(ErrorCode.InternalError,
\* ..., { uri: resource.uri }).
ResourceLoadFailed(s, i, e) ==
    /\ i \in 1 .. Len(requests[s])
    /\ requests[s][i].method = "resources/read"
    /\ requests[s][i].loads = 1
    /\ requests[s][i].response = NoResponse
    /\ requests' = [requests EXCEPT ![s][i].response =
           ErrorResponseWithData(i, "InternalError", "Error reading resource: " \o ErrorToString(e),
               [uri |-> resources[FindResource(requests[s][i].name)].uri])]
    /\ UNCHANGED << tools, hostVars, toolHandlers, lastSetLevel, pingVars, toolVars, serverVars,
                    endpoint, clientInit, connectVars, roots, loggingLevel, rootsVars >>

\* ------------------------------------------------------ completion/complete

\* A string as the sequence of its characters.
Germany == << "G", "e", "r", "m", "a", "n", "y" >>

France == << "F", "r", "a", "n", "c", "e" >>

Italy == << "I", "t", "a", "l", "y" >>

\* The upper-case letters of the strings above and their lower-case forms.
UpperCase == << "F", "G", "I", "X" >>

LowerCase == << "f", "g", "i", "x" >>

\* toLowerCase() of one character.
Lower(c) ==
    IF \E k \in 1 .. Len(UpperCase) : UpperCase[k] = c
    THEN LowerCase[CHOOSE k \in 1 .. Len(UpperCase) : UpperCase[k] = c]
    ELSE c

\* The n binary digits of k, as characters.
RECURSIVE Bits(_, _)
Bits(k, n) == IF n = 0 THEN <<>> ELSE Append(Bits(k \div 2, n - 1), IF k % 2 = 1 THEN "1" ELSE "0")

\* An enum of MaxEnum codes, all starting with "x".
CodeEnum == [k \in 1 .. MaxEnum |-> << "x" >> \o Bits(k, 7)]

\* Prompts whose argument "name" declares a fixed enum and no completion
\* function.
CountryPoemPrompt == [name |-> "countryPoem", enum |-> << Germany, France, Italy >>]

CodePrompt == [name |-> "code", enum |-> CodeEnum]

CompletionPrompts == << CountryPoemPrompt, CodePrompt >>

\* ref.name of the completion/complete requests a client may send.
CompletionRefs == { "countryPoem", "code", "missing" }

\* argument.value of the completion/complete requests a client may send.
PartialValues == { << "G", "e", "r", "m" >>, << "g", "E", "r" >>, <<>>, << "X" >>, << "x", "1" >>,
                   << "r" >> }

\* The page size of a completion.
PageSize == 100

\* Mutant of MatchesPartial: the comparison is case-sensitive.
MatchesCaseSensitive(candidate, value) ==
    /\ Len(value) <= Len(candidate)
    /\ \A k \in 1 .. Len(value) : candidate[k] = value[k]

\* The candidate matches the partial value: a case-insensitive prefix match.
MatchesPartial(candidate, value) ==
    /\ Len(value) <= Len(candidate)
    /\ \A k \in 1 .. Len(value) : Lower(candidate[k]) = Lower(value[k])

\* The completion of an enum-backed argument: the matching candidates in
\* the enum's order, capped at the page size, and the number of matches.
EnumCompletion(enum, value) ==
    LET Test(candidate) == MatchesPartial(candidate, value)
        matches == SelectSeq(enum, Test)
    IN  [values |-> SubSeq(matches, 1, IF Len(matches) < PageSize THEN Len(matches) ELSE PageSize),
         total |-> Len(matches)]

\* The prompt a completion reference names: the first index, 0 when none.
FindCompletionPrompt(name) ==
    IF \E k \in 1 .. Len(CompletionPrompts) : CompletionPrompts[k].name = name
    THEN CHOOSE k \in 1 .. Len(CompletionPrompts) :
             /\ CompletionPrompts[k].name = name
             /\ \A j \in 1 .. k - 1 : CompletionPrompts[j].name # name
    ELSE 0

\* A completion/complete request for the argument "name" of prompt ref
\* arrives with the partial value.
Complete(s, ref, value) ==
    /\ CanReceive(s)
    /\ Len(requests[s]) < MaxRequests
    /\ LET id == Len(requests[s]) + 1
           k == FindCompletionPrompt(ref)
           request == [method |-> "completion/complete", name |-> ref,
                       arguments |-> [name |-> "name", value |-> value],
                       loads |-> 0,
                       response |-> IF k = 0
                                    THEN ErrorResponse(id, "MethodNotFound", "Unknown prompt: " \o ref)
                                    ELSE ResultResponse(id,
                                             [completion |-> EnumCompletion(CompletionPrompts[k].enum, value)])]
       IN requests' = [requests EXCEPT ![s] = Append(@, request)]
    /\ UNCHANGED << tools, hostVars, toolHandlers, lastSetLevel, pingVars, toolVars, serverVars,
                    endpoint, clientInit, connectVars, roots, loggingLevel, rootsVars >>

\* ------------------------------------------- FastMCPSession constructor

\* this.#capabilities as the constructor of session s filled it: tools,
\* resources and prompts each under if (x.length), logging always.  The test
\* on tools is the one that decided toolHandlers[s].
ServerCapabilities(s) ==
    { "logging" }
        \cup (IF toolHandlers[s] THEN { "tools" } ELSE {})
        \cup (IF Len(resources) > 0 THEN { "resources" } ELSE {})
        \cup (IF Len(prompts) > 0 THEN { "prompts" } ELSE {})

\* ------------------------------------------------- FastMCP.start, sse branch

\* The event as its listeners see it: emit() runs them synchronously, so they
\* read server.sessions as it is at the emit.
ServerEvent(type, s, seen) == [type |-> type, session |-> s, sessions |-> seen]

\* onConnect: (session) => { this.#sessions.push(session); this.emit("connect", ...) }
OnConnect(s) ==
    /\ sessions' = Append(sessions, s)
    /\ serverEvents' = Append(serverEvents, ServerEvent("connect", s, Append(sessions, s)))

\* onClose: (session) => { this.emit("disconnect", ...) }
OnClose(s) ==
    /\ sessions' = sessions
    /\ serverEvents' = Append(serverEvents, ServerEvent("disconnect", s, sessions))

\* The endpoint accepts a connection: createServer() constructs the session
\* and the endpoint calls its connect(transport).  Connections are numbered in
\* the order they are accepted.
SseAccept(s) ==
    /\ serverPc = "sseListening"
    /\ endpoint[s] = "none"
    /\ \A t \in Sessions : t < s => endpoint[t] # "none"
    /\ endpoint' = [endpoint EXCEPT ![s] = "connecting"]
    /\ NewSession(s)
    /\ ConnectBegin(s)
    /\ UNCHANGED << tools, hostVars, requests, lastSetLevel, pingVars, toolVars, serverVars, clientInit, clientCapabilities, roots,
                    loggingLevel, pingInterval, timers, rootsVars >>

\* connect() returned: the endpoint calls onConnect(session).
SseConnected(s) ==
    /\ endpoint[s] = "connecting"
    /\ connectPc[s] = "done"
    /\ endpoint' = [endpoint EXCEPT ![s] = "open"]
    /\ OnConnect(s)
    /\ UNCHANGED << tools, hostVars, handlerVars, pingVars, toolVars, clientInit, connectVars, roots, loggingLevel, rootsVars >>

\* connect() threw: the endpoint reports the error and never calls onConnect.
SseConnectFailed(s) ==
    /\ endpoint[s] = "connecting"
    /\ connectPc[s] = "failed"
    /\ endpoint' = [endpoint EXCEPT ![s] = "failed"]
    /\ UNCHANGED << tools, hostVars, handlerVars, pingVars, toolVars, serverVars, clientInit, connectVars, roots, loggingLevel, rootsVars >>

\* The client's connection goes away: the endpoint calls session.close().
SseDisconnect(s) ==
    /\ endpoint[s] \in { "connecting", "open", "failed" }
    /\ endpoint' = [endpoint EXCEPT ![s] = "closing"]
    /\ SessionClose(s)
    /\ UNCHANGED << tools, hostVars, handlerVars, pingVars, toolVars, serverVars, clientInit, clientCapabilities, connectPc,
                    attempt, roots, loggingLevel, pingInterval, rootsVars >>

\* close() returned: the endpoint calls onClose(session).
SseClosed(s) ==
    /\ endpoint[s] = "closing"
    /\ endpoint' = [endpoint EXCEPT ![s] = "closed"]
    /\ OnClose(s)
    /\ UNCHANGED << tools, hostVars, handlerVars, pingVars, toolVars, clientInit, connectVars, roots, loggingLevel, rootsVars >>

\* Mutant of stop: stop() also closes every session.
stopClosesSessions ==
    /\ serverPc = "sseListening"
    /\ serverPc' = "sseStopped"
    /\ timers' = [s \in Sessions |-> {}]
    /\ transport' = [s \in Sessions |-> FALSE]
    /\ UNCHANGED << tools, thrown, handlerVars, pingVars, toolVars, serverVars, endpoint,
                    clientInit, clientCapabilities, connectPc, attempt, pingInterval, roots,
                    loggingLevel, rootsVars >>

\* FastMCP.stop(): if (this.#sseServer) this.#sseServer.close().  The
\* endpoint stops accepting connections; nothing else is touched.
stop ==
    /\ serverPc = "sseListening"
    /\ serverPc' = "sseStopped"
    /\ UNCHANGED << tools, thrown, handlerVars, pingVars, toolVars, serverVars, endpoint,
                    clientInit, connectVars, roots, loggingLevel, rootsVars >>

\* ------------------------------------------------- multi-session specification

Init ==
    /\ tools = DefaultRegistry
    /\ serverPc = "sseListening"
    /\ InitSessions

Next ==
    \E s \in Sessions :
        \/ SseAccept(s)
        \/ \E caps \in ClientCaps : ClientInitialize(s, caps)
        \/ ConnectPoll(s)
        \/ \E r \in RootLists : ConnectRootsResult(s, r)
        \/ ConnectRootsFailed(s)
        \/ SseConnected(s)
        \/ SseConnectFailed(s)
        \/ SseDisconnect(s)
        \/ SseClosed(s)
        \/ \E level \in LoggingLevels : SetLevel(s, level)
        \/ RootsListChanged(s)
        \/ \E r \in RootLists : RootsRefetched(s, r)
        \/ RootsRefetchFailed(s)

Spec == Init /\ [][Next]_vars

\* ----------------------------------------------- FastMCP.start, stdio branch

\* Mutant of StdioConnected: start() does not wait for connect() to succeed.
StdioConnectedEarly(s) ==
    /\ serverPc = "stdioConnecting"
    /\ connectPc[s] \in { "done", "failed" }
    /\ serverPc' = "stdioRunning"
    /\ sessions' = Append(sessions, s)
    /\ serverEvents' = Append(serverEvents, [type |-> "connect", session |-> s, sessions |-> Append(sessions, s)])
    /\ UNCHANGED << tools, thrown, toolHandlers, requests, lastSetLevel, pingTicks, pendingPings, calls, outbox,
                    endpoint, clientInit, transport, clientCapabilities, connectPc, attempt,
                    pingInterval, timers, roots, loggingLevel, rootsChanges, rootsRequests,
                    sessionEvents >>

\* await session.connect(transport) returned: this.#sessions.push(session),
\* this.emit("connect", { session }), and start() returns.
StdioConnected(s) ==
    /\ serverPc = "stdioConnecting"
    /\ connectPc[s] = "done"
    /\ serverPc' = "stdioRunning"
    /\ sessions' = Append(sessions, s)
    /\ serverEvents' = Append(serverEvents, ServerEvent("connect", s, Append(sessions, s)))
    /\ UNCHANGED << tools, thrown, handlerVars, pingVars, toolVars, endpoint, clientInit,
                    connectVars, roots, loggingLevel, rootsVars >>

\* await session.connect(transport) threw: start() rejects with that error.
StdioFailed(s) ==
    /\ serverPc = "stdioConnecting"
    /\ connectPc[s] = "failed"
    /\ serverPc' = "stdioRejected"
    /\ UNCHANGED << tools, thrown, handlerVars, pingVars, toolVars, serverVars, endpoint,
                    clientInit, connectVars, roots, loggingLevel, rootsVars >>

\* start({ transportType: "stdio" }) up to its await: the one session is
\* constructed with the registry and its connect() has begun.
InitStdio ==
    /\ tools = DefaultRegistry
    /\ serverPc = "stdioConnecting"
    /\ sessions = <<>>
    /\ serverEvents = <<>>
    /\ endpoint = [s \in Sessions |-> "none"]
    /\ transport = [s \in Sessions |-> s = 1]
    /\ clientInit = [s \in Sessions |-> NoCaps]
    /\ clientCapabilities = [s \in Sessions |-> NoCaps]
    /\ connectPc = [s \in Sessions |-> IF s = 1 THEN "poll" ELSE "idle"]
    /\ attempt = [s \in Sessions |-> 0]
    /\ roots = [s \in Sessions |-> NewRoots]
    /\ loggingLevel = [s \in Sessions |-> NewLoggingLevel]
    /\ pingInterval = [s \in Sessions |-> 0]
    /\ timers = [s \in Sessions |-> {}]
    /\ rootsChanges = 0
    /\ rootsRequests = [s \in Sessions |-> 0]
    /\ sessionEvents = [s \in Sessions |-> <<>>]
    /\ pingTicks = 0
    /\ pendingPings = [s \in Sessions |-> 0]
    /\ calls = [s \in Sessions |-> <<>>]
    /\ outbox = [s \in Sessions |-> <<>>]
    /\ thrown = [s \in Sessions |-> <<>>]
    /\ toolHandlers = [s \in Sessions |-> s = 1]
    /\ requests = [s \in Sessions |-> <<>>]
    /\ lastSetLevel = [s \in Sessions |-> NoSetLevel]

NextStdio ==
    \E s \in Sessions :
        \/ \E caps \in ClientCaps : ClientInitialize(s, caps)
        \/ ConnectPoll(s)
        \/ \E r \in RootLists : ConnectRootsResult(s, r)
        \/ ConnectRootsFailed(s)
        \/ StdioConnected(s)
        \/ StdioFailed(s)
        \/ \E level \in LoggingLevels : SetLevel(s, level)
        \/ RootsListChanged(s)
        \/ \E r \in RootLists : RootsRefetched(s, r)
        \/ RootsRefetchFailed(s)
        \/ \E t \in timers[s] : PingTick(s, t)
        \/ PingAnswered(s)
        \/ PingFailed(s)

SpecStdio == InitStdio /\ [][NextStdio]_vars

\* --------------------------------------------------- shutdown specification

\* The clients of this specification declare no roots support.
PlainCaps == [known |-> TRUE, roots |-> FALSE]

\* Connections, pings and stop().
NextStop ==
    \/ stop
    \/ \E s \in Sessions :
           \/ SseAccept(s)
           \/ ClientInitialize(s, PlainCaps)
           \/ ConnectPoll(s)
           \/ SseConnected(s)
           \/ SseConnectFailed(s)
           \/ SseDisconnect(s)
           \/ SseClosed(s)
           \/ \E t \in timers[s] : PingTick(s, t)
           \/ PingAnswered(s)
           \/ PingFailed(s)

SpecStop == Init /\ [][NextStop]_vars

\* ------------------------------------------------ one-session specification

\* The state right after the endpoint accepted its first connection:
\* SseAccept(1) taken from Init.
InitSession ==
    /\ tools = DefaultRegistry
    /\ sessions = <<>>
    /\ serverEvents = <<>>
    /\ endpoint = [s \in Sessions |-> IF s = 1 THEN "connecting" ELSE "none"]
    /\ transport = [s \in Sessions |-> s = 1]
    /\ clientInit = [s \in Sessions |-> NoCaps]
    /\ clientCapabilities = [s \in Sessions |-> NoCaps]
    /\ connectPc = [s \in Sessions |-> IF s = 1 THEN "poll" ELSE "idle"]
    /\ attempt = [s \in Sessions |-> 0]
    /\ roots = [s \in Sessions |-> NewRoots]
    /\ loggingLevel = [s \in Sessions |-> NewLoggingLevel]
    /\ pingInterval = [s \in Sessions |-> 0]
    /\ timers = [s \in Sessions |-> {}]
    /\ rootsChanges = 0
    /\ rootsRequests = [s \in Sessions |-> 0]
    /\ sessionEvents = [s \in Sessions |-> <<>>]
    /\ pingTicks = 0
    /\ pendingPings = [s \in Sessions |-> 0]
    /\ calls = [s \in Sessions |-> <<>>]
    /\ outbox = [s \in Sessions |-> <<>>]
    /\ serverPc = "sseListening"
    /\ thrown = [s \in Sessions |-> <<>>]
    /\ toolHandlers = [s \in Sessions |-> s = 1]
    /\ requests = [s \in Sessions |-> <<>>]
    /\ lastSetLevel = [s \in Sessions |-> NoSetLevel]

\* One connection, with the liveness ping: no further connection is accepted.
NextSession ==
    \E s \in Sessions :
        \/ \E caps \in ClientCaps : ClientInitialize(s, caps)
        \/ ConnectPoll(s)
        \/ \E r \in RootLists : ConnectRootsResult(s, r)
        \/ ConnectRootsFailed(s)
        \/ SseConnected(s)
        \/ SseConnectFailed(s)
        \/ SseDisconnect(s)
        \/ SseClosed(s)
        \/ \E level \in LoggingLevels : SetLevel(s, level)
        \/ RootsListChanged(s)
        \/ \E r \in RootLists : RootsRefetched(s, r)
        \/ RootsRefetchFailed(s)
        \/ \E t \in timers[s] : PingTick(s, t)
        \/ PingAnswered(s)
        \/ PingFailed(s)
        \/ ConnectRejected(s)

SpecSession == InitSession /\ [][NextSession]_vars

\* The awaits of the polling loop (getClientCapabilities(), delay(100))
\* always complete, so a connect() that is in the loop goes on.
SpecSessionFair == SpecSession /\ \A s \in Sessions : WF_vars(ConnectPoll(s))

\* ----------------------------------------------------- roots specification

\* One connection whose client declares roots: the fetch of connect() and
\* the fetches of several roots/list_changed notifications, completing in
\* any order.
NextRoots ==
    \E s \in Sessions :
        \/ ClientInitialize(s, [known |-> TRUE, roots |-> TRUE])
        \/ ConnectPoll(s)
        \/ \E r \in RootLists : ConnectRootsResult(s, r)
        \/ ConnectRootsFailed(s)
        \/ RootsListChangedWithin(s, MaxOverlap)
        \/ \E r \in RootLists : RootsRefetched(s, r)
        \/ RootsRefetchFailed(s)

SpecRoots == InitSession /\ [][NextRoots]_vars

\* ------------------------------------------------- lifecycle specification

\* connect(transport) is called again on a session whose close() has run and
\* whose earlier connect() has returned or thrown: this.#server.transport is
\* unset, so the double-connect check passes and the handshake starts over.
Reconnect(s) ==
    /\ endpoint[s] \in { "closing", "closed" }
    /\ connectPc[s] \in { "done", "failed" }
    /\ ConnectBegin(s)
    /\ UNCHANGED << tools, hostVars, handlerVars, pingVars, toolVars, serverVars, endpoint,
                    clientInit, clientCapabilities, roots, loggingLevel, pingInterval, timers,
                    rootsVars >>

\* One connection as in NextSession, and connect() calls after close().
NextLifecycle ==
    \/ NextSession
    \/ \E s \in Sessions : Reconnect(s)

SpecLifecycle == InitSession /\ [][NextLifecycle]_vars

\* ------------------------------------------------------- tool specification

\* A registry built by addTool before start(), and one client connected:
\* the state after SseAccept(1), ClientInitialize(1, no roots), ConnectPoll(1)
\* and SseConnected(1).
InitToolsWith(registries) ==
    /\ tools \in registries
    /\ sessions = << 1 >>
    /\ serverEvents = << ServerEvent("connect", 1, << 1 >>) >>
    /\ endpoint = [s \in Sessions |-> IF s = 1 THEN "open" ELSE "none"]
    /\ transport = [s \in Sessions |-> s = 1]
    /\ clientInit = [s \in Sessions |-> IF s = 1 THEN [known |-> TRUE, roots |-> FALSE] ELSE NoCaps]
    /\ clientCapabilities = clientInit
    /\ connectPc = [s \in Sessions |-> IF s = 1 THEN "done" ELSE "idle"]
    /\ attempt = [s \in Sessions |-> 0]
    /\ roots = [s \in Sessions |-> NewRoots]
    /\ loggingLevel = [s \in Sessions |-> NewLoggingLevel]
    /\ pingInterval = [s \in Sessions |-> IF s = 1 THEN 1 ELSE 0]
    /\ timers = [s \in Sessions |-> IF s = 1 THEN { 1 } ELSE {}]
    /\ rootsChanges = 0
    /\ rootsRequests = [s \in Sessions |-> 0]
    /\ sessionEvents = [s \in Sessions |-> <<>>]
    /\ pingTicks = 0
    /\ pendingPings = [s \in Sessions |-> 0]
    /\ calls = [s \in Sessions |-> <<>>]
    /\ outbox = [s \in Sessions |-> <<>>]
    /\ serverPc = "sseListening"
    /\ thrown = [s \in Sessions |-> <<>>]
    /\ toolHandlers = [s \in Sessions |-> s = 1 /\ Len(tools) > 0]
    /\ requests = [s \in Sessions |-> <<>>]
    /\ lastSetLevel = [s \in Sessions |-> NoSetLevel]

InitTools == InitToolsWith(Registries)

NextTools ==
    \E s \in Sessions :
        \/ \E name \in ToolNames, arguments \in ArgValues, token \in ProgressTokens :
               CallTool(s, name, arguments, token)
        \/ \E i \in 1 .. MaxCalls, progress \in Progresses : ReportProgress(s, i, progress)
        \/ \E i \in 1 .. MaxCalls, fn \in LogFunctions : Log(s, i, fn)
        \/ \E i \in 1 .. MaxCalls, v \in ToolResults : ExecuteResolves(s, i, v)
        \/ \E i \in 1 .. MaxCalls, e \in ToolErrors : ExecuteThrows(s, i, e)

SpecTools == InitTools /\ [][NextTools]_vars

\* ----------------------------------------------- normalization specification

\* One client connected; its calls resolve with every value of ResultValues.
NextNormalize ==
    \E s \in Sessions :
        \/ CallTool(s, "add", "{a:1,b:2}", NoToken)
        \/ \E i \in 1 .. MaxCalls, v \in ResultValues : ExecuteResolves(s, i, v)

SpecNormalize == InitTools /\ [][NextNormalize]_vars

\* ------------------------------------------------------ prompt specification

\* One client connected, sending prompts/get requests.
NextPrompts ==
    \E s \in Sessions :
        \/ \E name \in PromptNames, args \in PromptArguments : GetPrompt(s, name, args)
        \/ \E i \in 1 .. MaxRequests, text \in PromptTexts : PromptLoaded(s, i, text)
        \/ \E i \in 1 .. MaxRequests, e \in ToolErrors : PromptLoadFailed(s, i, e)

SpecPrompts == InitTools /\ [][NextPrompts]_vars

\* ---------------------------------------------------- resource specification

\* One client connected, sending resources/read requests and prompts/get
\* requests without arguments or with all of them.
NextResources ==
    \E s \in Sessions :
        \/ \E uri \in ResourceUris : ReadResource(s, uri)
        \/ \E i \in 1 .. MaxRequests, result \in LoadResults : ResourceLoaded(s, i, result)
        \/ \E i \in 1 .. MaxRequests, e \in ToolErrors : ResourceLoadFailed(s, i, e)
        \/ \E name \in PromptNames :
               \E args \in { a \in PromptArguments : a.names \in { {}, { "changes", "style", "scope" } } } :
                   GetPrompt(s, name, args)
        \/ \E i \in 1 .. MaxRequests, text \in PromptTexts : PromptLoaded(s, i, text)
        \/ \E i \in 1 .. MaxRequests, e \in ToolErrors : PromptLoadFailed(s, i, e)

SpecResources == InitTools /\ [][NextResources]_vars

\* -------------------------------------------------- completion specification

\* One client connected, sending completion/complete requests.
NextCompletion ==
    \E s \in Sessions : \E ref \in CompletionRefs, value \in PartialValues : Complete(s, ref, value)

SpecCompletion == InitTools /\ [][NextCompletion]_vars

\* -------------------------------------------------- disconnect specification

\* One client connected whose connection may go away while its calls execute.
NextDisconnect ==
    \E s \in Sessions :
        \/ \E name \in ToolNames : CallTool(s, name, "{a:1,b:2}", "tokA")
        \/ \E i \in 1 .. MaxCalls : ReportProgress(s, i, [progress |-> 5])
        \/ \E i \in 1 .. MaxCalls : Log(s, i, "info")
        \/ \E i \in 1 .. MaxCalls, v \in ToolResults : ExecuteResolves(s, i, v)
        \/ \E i \in 1 .. MaxCalls, e \in ToolErrors : ExecuteThrows(s, i, e)
        \/ SseDisconnect(s)
        \/ SseClosed(s)

SpecDisconnect == InitTools /\ [][NextDisconnect]_vars

\* --------------------------------------------------- duplicate specification

\* One client connected to a server on which two tools, two resources and
\* two prompts were registered under the same name or uri.
NextDuplicates ==
    \E s \in Sessions :
        \/ \E name \in ToolNames, arguments \in ArgValues : CallTool(s, name, arguments, NoToken)
        \/ \E i \in 1 .. MaxCalls : ExecuteResolves(s, i, [kind |-> "string", text |-> "3"])
        \/ \E uri \in ResourceUris : ReadResource(s, uri)
        \/ \E i \in 1 .. MaxRequests : ResourceLoaded(s, i, [kind |-> "payload", payload |-> [text |-> "Example log content"]])
        \/ \E name \in PromptNames :
               \E args \in { a \in PromptArguments : a.names \in { {}, { "changes", "style", "scope" } } } :
                   GetPrompt(s, name, args)
        \/ \E i \in 1 .. MaxRequests, text \in PromptTexts : PromptLoaded(s, i, text)

SpecDuplicates == InitToolsWith(DuplicateRegistries) /\ [][NextDuplicates]_vars

\* ---------------------------------------------------- progress specification

\* One client connected whose calls carry progress tokens and report
\* progress while they execute.
NextProgress ==
    \E s \in Sessions :
        \/ \E token \in ConcurrentTokens : CallTool(s, "add", "{a:1,b:2}", token)
        \/ \E i \in 1 .. MaxCalls, progress \in Progresses : ReportProgress(s, i, progress)
        \/ \E i \in 1 .. MaxCalls : ExecuteResolves(s, i, [kind |-> "string", text |-> "3"])

SpecProgress == InitTools /\ [][NextProgress]_vars

\* ----------------------------------------------------- logging specification

\* One client connected that sets the logging level while its calls log.
NextLogging ==
    \E s \in Sessions :
        \/ CallTool(s, "add", "{a:1,b:2}", NoToken)
        \/ \E level \in SetLevels : SetLevel(s, level)
        \/ \E i \in 1 .. MaxCalls, fn \in LogFunctions : Log(s, i, fn)
        \/ \E i \in 1 .. MaxCalls : ExecuteResolves(s, i, [kind |-> "string", text |-> "3"])

SpecLogging == InitTools /\ [][NextLogging]_vars

\* ---------------------------------------------------- registry specification

\* One client connected, tools/call requests, and addTool calls made after
\* start().
NextRegistry ==
    \/ \E tool \in { AddTool, PingTool } : addTool(tool)
    \/ \E s \in Sessions :
           \/ \E name \in ToolNames, arguments \in ArgValues : CallTool(s, name, arguments, NoToken)
           \/ \E i \in 1 .. MaxCalls, v \in ToolResults : ExecuteResolves(s, i, v)
           \/ \E i \in 1 .. MaxCalls, e \in ToolErrors : ExecuteThrows(s, i, e)

SpecRegistry == InitTools /\ [][NextRegistry]_vars

\* ------------------------------------------------------------------ claims

\* The request of call i of session s fails the schema its tool declares.
FailsValidation(s, i) ==
    LET c == calls[s][i]
        k == FindTool(c.name)
    IN  /\ k # 0
        /\ tools[k].hasParameters
        /\ c.arguments \notin tools[k].parameters

\* No tool of the registry has the name.
Unregistered(name) == \A k \in 1 .. Len(tools) : tools[k].name # name

\* The responses (results and protocol errors) session s gave to request i.
Responses(s, i) ==
    { k \in 1 .. Len(outbox[s]) : outbox[s][k].kind \in { "result", "error" } /\ outbox[s][k].id = i }

\* C1: every tools/call whose tool declares a schema and whose arguments fail
\* it is answered with the protocol error InvalidParams and the message
\* "Invalid <name> parameters", and its execute is never invoked.
C1_InvalidParams ==
    \A s \in Sessions : \A i \in 1 .. Len(calls[s]) :
        FailsValidation(s, i) =>
            /\ calls[s][i].status = "rejected"
            /\ \A k \in Responses(s, i) :
                   outbox[s][k] = ErrorResponse(i, "InvalidParams", "Invalid " \o calls[s][i].name \o " parameters")

\* C2: a call whose execute threw is answered with a result of one text
\* entry and isError true, never with a protocol error; and every protocol
\* error answers a call whose lookup or validation failed.
C2_ExecuteErrorsAreResults ==
    \A s \in Sessions :
        /\ \A i \in 1 .. Len(calls[s]) :
               calls[s][i].status = "threw" =>
                   /\ Cardinality(Responses(s, i)) = 1
                   /\ \A k \in Responses(s, i) :
                          /\ outbox[s][k].kind = "result"
                          /\ DOMAIN outbox[s][k].result = { "content", "isError" }
                          /\ outbox[s][k].result.isError = TRUE
                          /\ Len(outbox[s][k].result.content) = 1
                          /\ IsTextContent(outbox[s][k].result.content[1])
        /\ \A k \in 1 .. Len(outbox[s]) :
               outbox[s][k].kind = "error" =>
                   /\ outbox[s][k].id \in 1 .. Len(calls[s])
                   /\ \/ Unregistered(calls[s][outbox[s][k].id].name)
                      \/ FailsValidation(s, outbox[s][k].id)

\* C2 witness: a plain Error and a UserError were thrown and both answered
\* with the isError envelope.
C2_Witness ==
    \E s \in Sessions :
        /\ Len(calls[s]) = 2
        /\ calls[s][1].status = "threw"
        /\ calls[s][2].status = "threw"
        /\ \E j, k \in 1 .. Len(outbox[s]) :
               /\ outbox[s][j] = ResultResponse(1, [content |-> << [type |-> "text", text |-> "Something went wrong"] >>, isError |-> TRUE])
               /\ outbox[s][k].kind = "result"
               /\ outbox[s][k].id = 2
               /\ outbox[s][k].result # outbox[s][j].result

\* C3: a step that receives a tools/call for a name no tool has appends one
\* MethodNotFound error for that request and changes nothing else: the call
\* is not executed, no notification is sent, loggingLevel, roots and every
\* other part of the state stay as they were.
C3_UnknownToolNoSideEffects ==
    [][\A s \in Sessions :
          (/\ Len(calls'[s]) = Len(calls[s]) + 1
           /\ Unregistered(calls'[s][Len(calls'[s])].name))
          => /\ calls'[s][Len(calls'[s])].status = "rejected"
             /\ Len(outbox'[s]) = Len(outbox[s]) + 1
             /\ SubSeq(outbox'[s], 1, Len(outbox[s])) = outbox[s]
             /\ outbox'[s][Len(outbox'[s])].kind = "error"
             /\ outbox'[s][Len(outbox'[s])].code = "MethodNotFound"
             /\ outbox'[s][Len(outbox'[s])].id = Len(calls'[s])
             /\ SubSeq(calls'[s], 1, Len(calls[s])) = calls[s]
             /\ \A t \in Sessions \ { s } : calls'[t] = calls[t] /\ outbox'[t] = outbox[t]
             /\ UNCHANGED << loggingLevel, roots, sessionEvents, tools, serverVars,
                             endpoint, clientInit, connectVars, rootsVars, pingVars >>
      ]_vars

\* C3 witness: with a tool registered, a call for another name was rejected
\* with MethodNotFound while an earlier call is still executing.
C3_Witness ==
    \E s \in Sessions :
        /\ Len(tools) > 0
        /\ Len(calls[s]) = 2
        /\ calls[s][1].status = "executing"
        /\ Unregistered(calls[s][2].name)
        /\ outbox[s] = << ErrorResponse(2, "MethodNotFound", "Unknown tool: " \o calls[s][2].name) >>

\* The sessions for which the server emitted an event of the type.
EventSessions(type) ==
    { serverEvents[k].session : k \in { j \in 1 .. Len(serverEvents) : serverEvents[j].type = type } }

\* How many events of the type the server emitted for session s.
EventCount(type, s) ==
    Cardinality({ k \in 1 .. Len(serverEvents) : serverEvents[k].type = type /\ serverEvents[k].session = s })

\* How often session s is in the sessions list.
Occurrences(s) == Cardinality({ k \in 1 .. Len(sessions) : sessions[k] = s })

\* C4: after any run of connects and disconnects the sessions list is
\* exactly the sessions that connected and have not disconnected, each
\* once, and a disconnect yields at most one disconnect event.
C4_SessionsAreTheConnected ==
    /\ Range(sessions) = EventSessions("connect") \ EventSessions("disconnect")
    /\ \A s \in Sessions : Occurrences(s) <= 1 /\ EventCount("disconnect", s) <= 1

\* C5: a session is in the list, and has a connect event, only when its
\* handshake succeeded (client capabilities known); it has one connect event
\* exactly when it is in the list once, never more; the listeners of the
\* connect event already see it in the list; an open connection has its
\* event.
C5_ConnectAfterHandshake ==
    /\ \A s \in Range(sessions) \cup EventSessions("connect") : clientCapabilities[s].known
    /\ \A s \in Sessions :
           /\ EventCount("connect", s) = Occurrences(s)
           /\ Occurrences(s) <= 1
           /\ endpoint[s] = "open" => EventCount("connect", s) = 1
    /\ \A k \in 1 .. Len(serverEvents) :
           serverEvents[k].type = "connect" =>
               serverEvents[k].session \in Range(serverEvents[k].sessions)

\* C5 witness: two connections were accepted, both handshakes succeeded, both
\* sessions are listed and the second connect event saw both.
C5_Witness ==
    /\ sessions = << 1, 2 >>
    /\ clientCapabilities[1].known /\ clientCapabilities[2].known
    /\ Len(serverEvents) = 2
    /\ serverEvents[2] = [type |-> "connect", session |-> 2, sessions |-> << 1, 2 >>]

\* C6: a logging/setLevel request, a roots/list_changed notification or a
\* completed roots fetch handled by one session leaves loggingLevel and roots
\* of every other session as they were; a session's loggingLevel changes only
\* by its own setLevel, its roots only by its own fetches.
C6_SessionIsolation ==
    [][\A s \in Sessions :
          /\ ( \/ \E level \in LoggingLevels : SetLevel(s, level)
               \/ RootsListChanged(s)
               \/ \E r \in RootLists : RootsRefetched(s, r) )
             => \A t \in Sessions \ { s } :
                    loggingLevel'[t] = loggingLevel[t] /\ roots'[t] = roots[t]
          /\ loggingLevel'[s] # loggingLevel[s] => SetLevel(s, loggingLevel'[s])
          /\ roots'[s] # roots[s] => RootsRefetched(s, roots'[s]) \/ ConnectRootsResult(s, roots'[s])
      ]_vars

\* C6 witness: two open sessions whose loggingLevel and roots differ.
C6_Witness ==
    /\ endpoint[1] = "open" /\ endpoint[2] = "open"
    /\ loggingLevel[1] # loggingLevel[2]
    /\ roots[1] # roots[2]
    /\ [type |-> "rootsChanged", roots |-> roots[1]] \in Range(sessionEvents[1])

\* The progress notification the claim expects for progress p and token tok.
ExpectedProgress(p, tok) ==
    [kind |-> "notification", method |-> "notifications/progress",
     params |-> IF "total" \in DOMAIN p
                THEN [progress |-> p.progress, total |-> p.total, progressToken |-> tok]
                ELSE [progress |-> p.progress, progressToken |-> tok]]

\* C7: each reportProgress(p) of an executing call sends exactly one
\* notifications/progress carrying p's progress and total and the
\* progressToken of that call's request, while the call has no response yet;
\* what was sent is never taken back.
C7_ProgressNotifications ==
    [][\A s \in Sessions :
          /\ \A i \in 1 .. Len(calls[s]) : \A p \in Progresses :
                 ReportProgress(s, i, p) =>
                     /\ outbox'[s] = Append(outbox[s], ExpectedProgress(p, calls[s][i].progressToken))
                     /\ Responses(s, i) = {}
          /\ Len(outbox'[s]) >= Len(outbox[s])
          /\ SubSeq(outbox'[s], 1, Len(outbox[s])) = outbox[s]
      ]_vars

\* C7 witness: with two calls of different tokens executing, the second
\* reported progress, its notification carries its token and precedes its
\* response.
C7_Witness ==
    \E s \in Sessions :
        /\ Len(calls[s]) = 2
        /\ calls[s][1].progressToken = NoToken
        /\ calls[s][2].progressToken = "tokA"
        /\ calls[s][1].status = "executing"
        /\ Len(outbox[s]) = 2
        /\ outbox[s][1] = ExpectedProgress([progress |-> 0, total |-> 10], "tokA")
        /\ outbox[s][2].kind = "result" /\ outbox[s][2].id = 2

\* The level on the wire the claim expects for each log function.
ExpectedLevel(fn) ==
    CASE fn = "debug" -> "debug"
      [] fn = "error" -> "error"
      [] fn = "info" -> "info"
      [] fn = "warn" -> "warning"

\* C8: each log call of an executing call sends exactly one
\* notifications/message, appended after everything sent before, while the
\* call has no response yet; debug, error and info keep their name as level
\* and warn is sent as "warning".
C8_LogNotifications ==
    [][\A s \in Sessions : \A i \in 1 .. Len(calls[s]) : \A fn \in LogFunctions :
          Log(s, i, fn) =>
              /\ outbox'[s] = Append(outbox[s],
                     [kind |-> "notification", method |-> "notifications/message",
                      params |-> [level |-> ExpectedLevel(fn), data |-> [message |-> fn \o " message"]]])
              /\ Responses(s, i) = {}
      ]_vars

\* C8 witness: a call logged with warn and then with debug and then
\* resolved: the two messages are in that order, before the response.
C8_Witness ==
    \E s \in Sessions :
        /\ Len(outbox[s]) = 3
        /\ outbox[s][1].kind = "notification" /\ outbox[s][1].params = [level |-> "warning", data |-> [message |-> "warn message"]]
        /\ outbox[s][2].kind = "notification" /\ outbox[s][2].params = [level |-> "debug", data |-> [message |-> "debug message"]]
        /\ outbox[s][3].kind = "result" /\ outbox[s][3].id = 1

\* C9: each roots/list_changed notification starts one fetch of the roots;
\* when a fetch completes with list r the session's roots become r and one
\* rootsChanged event carrying r is emitted; rootsChanged events come from
\* nothing else.
C9_RootsRefetch ==
    [][\A s \in Sessions :
          /\ RootsListChanged(s) =>
                 /\ rootsRequests'[s] = rootsRequests[s] + 1
                 /\ roots'[s] = roots[s]
                 /\ sessionEvents'[s] = sessionEvents[s]
          /\ \A r \in RootLists :
                 RootsRefetched(s, r) =>
                     /\ rootsRequests'[s] = rootsRequests[s] - 1
                     /\ roots'[s] = r
                     /\ sessionEvents'[s] = Append(sessionEvents[s], [type |-> "rootsChanged", roots |-> r])
          /\ ( /\ Len(sessionEvents'[s]) > Len(sessionEvents[s])
               /\ sessionEvents'[s][Len(sessionEvents'[s])].type = "rootsChanged" )
             => \E r \in RootLists : RootsRefetched(s, r)
      ]_vars

\* C9 witness: the roots fetched at connect were replaced by the list the one
\* rootsChanged event carries.
C9_Witness ==
    \E s \in Sessions :
        /\ clientCapabilities[s].roots
        /\ connectPc[s] = "done"
        /\ rootsChanges = 1
        /\ rootsRequests[s] = 0
        /\ roots[s] = << RootFrontend >>
        /\ sessionEvents[s] = << [type |-> "rootsChanged", roots |-> << RootFrontend >>] >>

\* C10: once connect() succeeded and until the connection goes away the ping
\* timer of the session is live; a ping that fails appends one error event of
\* the session and changes nothing else: the timer stays, the transport stays
\* attached, the sessions list and the server events are untouched.
C10_PingFailureOnlyEmits ==
    /\ [](\A s \in Sessions :
             (connectPc[s] = "done" /\ endpoint[s] \in { "connecting", "open" })
                 => (pingInterval[s] # 0 /\ pingInterval[s] \in timers[s]))
    /\ [][\A s \in Sessions :
             PingFailed(s) =>
                 /\ sessionEvents'[s] = Append(sessionEvents[s], [type |-> "error"])
                 /\ UNCHANGED << timers, pingInterval, transport, sessions, serverEvents,
                                 endpoint, connectPc, roots, loggingLevel, clientCapabilities >>
         ]_vars

\* C10 witness: an open session whose first ping failed: the error event was
\* emitted, the session is still listed and attached, its timer is live and
\* has fired again.
C10_Witness ==
    \E s \in Sessions :
        /\ endpoint[s] = "open"
        /\ s \in Range(sessions)
        /\ transport[s]
        /\ sessionEvents[s] = << [type |-> "error"] >>
        /\ pingInterval[s] \in timers[s]
        /\ pingTicks = 2
        /\ pendingPings[s] = 1

\* C11: close() cancels the liveness timer and detaches the transport, and
\* once close() returned the session stays that way: no timer is started, the
\* transport stays detached and no timer callback calls ping() any more.
C11_CloseStopsPings ==
    [][\A s \in Sessions :
          /\ SseDisconnect(s) => (pingInterval[s] \notin timers'[s] /\ ~transport'[s])
          /\ endpoint[s] \in { "closing", "closed" } =>
                 /\ timers'[s] \subseteq timers[s]
                 /\ ~transport'[s]
                 /\ \A t \in timers[s] : ~PingTick(s, t)
      ]_vars

\* C12: connect() on a session that has a transport attached throws
\* "Server is already connected" and changes nothing: the transport, the
\* client capabilities, the roots, the handshake position and the liveness
\* timer are as before, and the session never has two live timers.
C12_DoubleConnectRejected ==
    /\ [](\A s \in Sessions : Cardinality(timers[s]) <= 1)
    /\ [][\A s \in Sessions :
             ConnectRejected(s) =>
                 /\ thrown'[s] = Append(thrown[s], "Server is already connected")
                 /\ UNCHANGED << transport, clientInit, clientCapabilities, roots, timers,
                                 pingInterval, connectPc, attempt, sessions, serverEvents >>
         ]_vars

\* C12 witness: a connected session with known capabilities, roots and a
\* live timer rejected a second connect().
C12_Witness ==
    \E s \in Sessions :
        /\ thrown[s] = << "Server is already connected" >>
        /\ transport[s]
        /\ connectPc[s] = "done"
        /\ clientCapabilities[s].roots
        /\ roots[s] = << RootFrontend, RootBackend >>
        /\ timers[s] = { pingInterval[s] }

\* C13: a handshake that saw no client capabilities ends, after the last
\* poll, with connect() throwing "Server did not connect"; it is final (no
\* further poll), no timer was started, connect() never got to its roots
\* request, and start() in single-session mode rejects: the session is not in the
\* sessions list and no connect event was emitted.
C13_HandshakeFailure ==
    /\ [](\A s \in Sessions :
             /\ (connectPc[s] = "failed" /\ ~clientCapabilities[s].known) =>
                    /\ thrown[s] = << "Server did not connect" >>
                    /\ timers[s] = {} /\ pingInterval[s] = 0
                    /\ s \notin Range(sessions)
                    /\ serverEvents = <<>>
                    /\ serverPc \in { "stdioConnecting", "stdioRejected" }
                    /\ serverPc = "stdioConnecting" => ENABLED StdioFailed(s)
             /\ (connectPc[s] = "done" \/ s \in Range(sessions)) => clientCapabilities[s].known)
    /\ [][\A s \in Sessions :
             /\ connectPc[s] = "failed" => (connectPc'[s] = "failed" /\ attempt'[s] = attempt[s])
             /\ (connectPc[s] # "failed" /\ connectPc'[s] = "failed" /\ ~clientCapabilities'[s].known) =>
                    (connectPc[s] = "poll" /\ attempt[s] = MaxAttempts)
         ]_vars

\* C13 witness: the client never initialized, connect() threw the handshake
\* error and start() rejected with nothing registered.
C13_Witness ==
    /\ serverPc = "stdioRejected"
    /\ connectPc[1] = "failed"
    /\ ~clientInit[1].known
    /\ thrown[1] = << "Server did not connect" >>
    /\ sessions = <<>>
    /\ timers[1] = {}

\* C14: the loggingLevel of a session is the level of the last
\* logging/setLevel request it handled, "info" when it handled none; every
\* request a connected client sends is handled and answered with the empty
\* result; a request for the level already requested changes nothing.
C14_LastSetLevelWins ==
    /\ [](\A s \in Sessions :
             /\ loggingLevel[s] = IF lastSetLevel[s].level = "none" THEN "info" ELSE lastSetLevel[s].level
             /\ lastSetLevel[s].level # "none" => lastSetLevel[s].result = <<>>
             /\ (transport[s] /\ clientInit[s].known) =>
                    \A level \in LoggingLevels : ENABLED SetLevel(s, level))
    /\ [][\A s \in Sessions : \A level \in LoggingLevels :
             SetLevel(s, level) =>
                 /\ lastSetLevel'[s] = [level |-> level, result |-> <<>>]
                 /\ lastSetLevel[s].level = level => UNCHANGED vars
         ]_vars

\* C14 witness: the last request handled asked for "info" again after the
\* session had connected; the level is "info" by that request.
C14_Witness ==
    \E s \in Sessions :
        /\ endpoint[s] = "open"
        /\ lastSetLevel[s] = [level |-> "info", result |-> <<>>]
        /\ loggingLevel[s] = "info"

\* C15: while a call of a session is executing and unanswered, the session
\* still takes a further tools/call, lets any other executing call resolve
\* and answers it, handles logging/setLevel and roots/list_changed, and its
\* ping timer still fires; answering one call leaves the other calls as they
\* are.
C15_CallsDoNotBlock ==
    /\ [](\A s \in Sessions : \A i \in 1 .. Len(calls[s]) :
             calls[s][i].status = "executing" =>
                 /\ \A j \in 1 .. Len(calls[s]) :
                        (j # i /\ calls[s][j].status = "executing") =>
                            \A v \in ToolResults : ENABLED ExecuteResolves(s, j, v)
                 /\ Len(calls[s]) < MaxCalls =>
                        \A name \in ToolNames : ENABLED CallTool(s, name, "{a:1,b:2}", NoToken)
                 /\ \A level \in LoggingLevels : ENABLED SetLevel(s, level)
                 /\ ENABLED RootsListChanged(s)
                 /\ timers[s] # {}
                 /\ \A t \in timers[s] : ENABLED PingTick(s, t))
    /\ [][\A s \in Sessions : \A j \in 1 .. Len(calls[s]) : \A v \in ToolResults :
             ExecuteResolves(s, j, v) =>
                 /\ Len(outbox'[s]) = Len(outbox[s]) + 1
                 /\ outbox'[s][Len(outbox'[s])].kind = "result"
                 /\ outbox'[s][Len(outbox'[s])].id = j
                 /\ \A i \in 1 .. Len(calls[s]) : i # j => calls'[s][i] = calls[s][i]
         ]_vars

\* C15 witness: two calls were outstanding together; the second resolved and
\* was answered while the first is still executing.
C15_Witness ==
    \E s \in Sessions :
        /\ Len(calls[s]) = 2
        /\ calls[s][1].status = "executing"
        /\ calls[s][2].status = "resolved"
        /\ Len(outbox[s]) = 1
        /\ outbox[s][1].kind = "result"
        /\ outbox[s][1].id = 2

\* C16: what a session lists and dispatches to is fixed when the session is
\* created: no step changes the answer of a created session to tools/list, or
\* whether and how it rejects a tools/call.
C16_RegistryFrozen ==
    [][\A s \in Sessions :
          endpoint[s] # "none" =>
              /\ ListTools(s)' = ListTools(s)
              /\ \A name \in ToolNames : \A arguments \in ArgValues :
                     CallToolRejection(s, name, arguments)' = CallToolRejection(s, name, arguments)
      ]_vars

C18_ErrorText ==
    [][\A s \in Sessions : \A i \in 1 .. Len(calls[s]) : \A e \in ToolErrors :
          ExecuteThrows(s, i, e) =>
              outbox'[s] = Append(outbox[s],
                  [kind |-> "result", id |-> i,
                   result |-> [content |-> << [type |-> "text",
                                               text |-> IF e.isUserError
                                                        THEN e.message
                                                        ELSE "Error: " \o e.message] >>,
                               isError |-> TRUE]])
      ]_vars

\* The content entries of the protocol: a text, or an image with base64 data.
ProtocolContents == { TextA, TextB, ImagePng }

\* C19: the answer to a call whose execute resolved is, for a string s,
\* {content: [{type: "text", text: s}]}; for a single content object c,
\* {content: [c]}; for a content result, that result with the same content
\* entries in the same order and the same isError (or none).
C19_Normalization ==
    [][\A s \in Sessions : \A i \in 1 .. Len(calls[s]) : \A v \in ResultValues :
          ExecuteResolves(s, i, v) =>
              /\ Len(outbox'[s]) = Len(outbox[s]) + 1
              /\ outbox'[s][Len(outbox'[s])].kind = "result"
              /\ outbox'[s][Len(outbox'[s])].id = i
              /\ LET r == outbox'[s][Len(outbox'[s])].result
                 IN  CASE v.kind = "string" ->
                              r = [content |-> << [type |-> "text", text |-> v.text] >>]
                       [] v.kind = "content" /\ v.content \in ProtocolContents ->
                              r = [content |-> << v.content >>]
                       [] v.kind = "result" /\ Range(v.result.content) \subseteq ProtocolContents ->
                              /\ DOMAIN r = DOMAIN v.result
                              /\ r.content = v.result.content
                              /\ "isError" \in DOMAIN v.result => r.isError = v.result.isError
                       [] OTHER -> TRUE
      ]_vars

\* C19 witness: one call resolved with an image and was answered with the
\* image wrapped; another resolved with a result of two entries and was
\* answered with them in the same order.
C19_Witness ==
    \E s \in Sessions :
        /\ Len(outbox[s]) = 2
        /\ outbox[s][1] = [kind |-> "result", id |-> 2, result |-> [content |-> << ImagePng >>]]
        /\ outbox[s][2] = [kind |-> "result", id |-> 1,
                           result |-> [content |-> << TextB, ImagePng >>, isError |-> FALSE]]

\* The indexes of the arguments of prompt k that are required and absent
\* from args.
AbsentRequired(k, args) ==
    { j \in 1 .. Len(prompts[k].arguments) :
          /\ prompts[k].arguments[j].required
          /\ ~(args.present /\ prompts[k].arguments[j].name \in args.names) }

\* C20: a prompts/get for a registered prompt with a required argument
\* absent is answered with the protocol error InvalidParams naming the
\* first such argument in declaration order, without a call of the loader;
\* with every required argument present the loader is called exactly once.
C20_MissingArgument ==
    \A s \in Sessions : \A i \in 1 .. Len(requests[s]) :
        LET r == requests[s][i]
        IN  \A k \in 1 .. Len(prompts) :
                (prompts[k].name = r.name /\ \A j \in 1 .. k - 1 : prompts[j].name # r.name) =>
                    IF AbsentRequired(k, r.arguments) # {}
                    THEN LET first == CHOOSE j \in AbsentRequired(k, r.arguments) :
                                          \A h \in AbsentRequired(k, r.arguments) : j <= h
                         IN  /\ r.loads = 0
                             /\ r.response = [kind |-> "error", id |-> i, code |-> "InvalidParams",
                                              message |-> "Missing required argument: "
                                                              \o prompts[k].arguments[first].name]
                    ELSE r.loads = 1

\* C21: a resources/read whose uri no registered resource has, and a
\* prompts/get whose name no registered prompt has, are answered with the
\* protocol error MethodNotFound, and no loader is called for them.
C21_UnknownIsMethodNotFound ==
    \A s \in Sessions : \A i \in 1 .. Len(requests[s]) :
        LET r == requests[s][i]
        IN  (\/ r.method = "resources/read" /\ \A k \in 1 .. Len(resources) : resources[k].uri # r.name
             \/ r.method = "prompts/get" /\ \A k \in 1 .. Len(prompts) : prompts[k].name # r.name) =>
                /\ r.loads = 0
                /\ r.response.kind = "error"
                /\ r.response.id = i
                /\ r.response.code = "MethodNotFound"

\* C21 witness: a resources/read of an unregistered uri and a prompts/get of
\* an unregistered name were both answered.
C21_Witness ==
    \E s \in Sessions :
        /\ Len(requests[s]) = 2
        /\ requests[s][1].method = "resources/read"
        /\ requests[s][1].name = "file:///missing"
        /\ requests[s][1].response.kind = "error"
        /\ requests[s][2].method = "prompts/get"
        /\ requests[s][2].name = "missing"
        /\ requests[s][2].response.kind = "error"

\* What may stand before the thrown error's message in the message of the
\* protocol error: the handler's prefix and the error's name.
MessagePrefixes ==
    { p \o n : p \in { "Error reading resource: ", "Error loading prompt: " },
               n \in { "", "Error: ", "UserError: " } }

\* The message ends with the message of the thrown error e.
PreservesMessage(message, e) == \E prefix \in MessagePrefixes : message = prefix \o e.message

\* Everything of the state but the requests.
SessionState ==
    << tools, sessions, serverEvents, endpoint, transport, clientInit, clientCapabilities,
       connectPc, attempt, roots, loggingLevel, pingInterval, timers, rootsChanges,
       rootsRequests, sessionEvents, pingTicks, pendingPings, calls, outbox, serverPc, thrown,
       toolHandlers, lastSetLevel >>

\* C22: when the loader of a resources/read or prompts/get request throws,
\* that request is answered with the protocol error InternalError whose
\* message ends with the thrown error's message, for resources/read with
\* the data {uri} of the resource; the transport stays attached, and no
\* other request and no other part of the state changes.
C22_LoaderFailureIsInternalError ==
    [][\A s \in Sessions : \A i \in 1 .. Len(requests[s]) : \A e \in ToolErrors :
          /\ ResourceLoadFailed(s, i, e) =>
                 /\ requests'[s][i].response.kind = "error"
                 /\ requests'[s][i].response.id = i
                 /\ requests'[s][i].response.code = "InternalError"
                 /\ PreservesMessage(requests'[s][i].response.message, e)
                 /\ requests'[s][i].response.data = [uri |-> requests[s][i].name]
                 /\ requests' = [requests EXCEPT ![s][i].response = requests'[s][i].response]
                 /\ transport'[s]
                 /\ UNCHANGED SessionState
          /\ PromptLoadFailed(s, i, e) =>
                 /\ requests'[s][i].response.kind = "error"
                 /\ requests'[s][i].response.id = i
                 /\ requests'[s][i].response.code = "InternalError"
                 /\ PreservesMessage(requests'[s][i].response.message, e)
                 /\ requests' = [requests EXCEPT ![s][i].response = requests'[s][i].response]
                 /\ transport'[s]
                 /\ UNCHANGED SessionState
      ]_vars

\* C22 witness: the loader of a resources/read and the loader of a
\* prompts/get threw, both requests were answered with InternalError, and
\* the session is still attached to its transport.
C22_Witness ==
    \E s \in Sessions :
        /\ transport[s]
        /\ Len(requests[s]) = 2
        /\ requests[s][1].method = "resources/read"
        /\ requests[s][1].response =
               [kind |-> "error", id |-> 1, code |-> "InternalError",
                message |-> "Error reading resource: Error: boom",
                data |-> [uri |-> "file:///logs/app.log"]]
        /\ requests[s][2].method = "prompts/get"
        /\ requests[s][2].response.kind = "error"
        /\ requests[s][2].response.code = "InternalError"

\* The payloads of a loader's result, in the loader's order.
PayloadsOf(result) == IF result.kind = "payload" THEN << result.payload >> ELSE result.payloads

\* The content entry of payload p of a resource: the resource's uri, name
\* and mimeType and the payload's text or blob.
StampedEntry(resource, p) ==
    [key \in { "uri", "name", "mimeType" } \cup DOMAIN p |->
        [kind |-> "string",
         value |-> CASE key = "uri" -> resource.uri
                     [] key = "name" -> resource.name
                     [] key = "mimeType" -> resource.mimeType
                     [] OTHER -> p[key]]]

\* C23: when the loader of a resources/read resolves with N payloads (one
\* payload counting as N = 1), the answer has exactly N content entries in
\* the loader's order, each with the resource's uri, name and mimeType and
\* that payload's text or blob.
C23_OneEntryPerPayload ==
    [][\A s \in Sessions : \A i \in 1 .. Len(requests[s]) : \A result \in LoadResults :
          ResourceLoaded(s, i, result) =>
              /\ requests'[s][i].response.kind = "result"
              /\ LET contents == requests'[s][i].response.result.contents
                     resource == resources[requests[s][i].definition]
                 IN  /\ Len(contents) = Len(PayloadsOf(result))
                     /\ \A k \in 1 .. Len(contents) :
                            contents[k] = StampedEntry(resource, PayloadsOf(result)[k])
      ]_vars

\* The values of {name} for which the template "file:///logs/{name}.log"
\* gives one of the uris a client may send.
LogNames == { "app", "error" }

\* The uri matches the template "file:///logs/{name}.log".
MatchesLogsTemplate(uri) == \E n \in LogNames : uri = "file:///logs/" \o n \o ".log"

\* C24: a resources/read whose uri a static resource has calls that
\* resource's loader; one whose uri no static resource has but the template
\* "file:///logs/{name}.log" matches calls the template's loader, once; one
\* that nothing matches calls no loader.
C24_StaticThenTemplates ==
    \A s \in Sessions : \A i \in 1 .. Len(requests[s]) :
        LET r == requests[s][i]
        IN  r.method = "resources/read" =>
                IF \E k \in 1 .. Len(resources) : resources[k].uri = r.name
                THEN r.loads = 1
                ELSE IF MatchesLogsTemplate(r.name)
                     THEN /\ r.loads = 1
                          /\ r.response.kind = "error" => r.response.code # "MethodNotFound"
                     ELSE r.loads = 0

\* The candidates of prompt k of which the partial value is a prefix, upper
\* and lower case taken as equal.
PrefixMatches(k, value) ==
    { c \in Range(CompletionPrompts[k].enum) :
          /\ Len(value) <= Len(c)
          /\ \A j \in 1 .. Len(value) :
                 \/ c[j] = value[j]
                 \/ \E h \in 1 .. Len(UpperCase) :
                        { c[j], value[j] } = { UpperCase[h], LowerCase[h] } }

C26_NumberResult ==
    [][\A s \in Sessions : \A i \in 1 .. Len(calls[s]) :
          ExecuteResolves(s, i, [kind |-> "number", value |-> 3]) =>
              outbox'[s] = Append(outbox[s],
                  [kind |-> "result", id |-> i,
                   result |-> [content |-> << [type |-> "text", text |-> "3"] >>]])
      ]_vars

\* C27: connect() never counts more than 10 polls; a poll that finds the
\* client's capabilities ends the loop; a poll that finds none is counted
\* and the loop goes on; after 10 polls without capabilities no further poll
\* is made and connect() throws "Server did not connect", even if the client
\* has initialized by then; and a connect() in the loop always leaves it.
C27_HandshakeTerminates ==
    /\ [](\A s \in Sessions : attempt[s] <= 10)
    /\ [][\A s \in Sessions :
             ConnectPoll(s) =>
                 IF attempt[s] < 10 /\ clientInit[s].known
                 THEN /\ connectPc'[s] \in { "roots", "done" }
                      /\ clientCapabilities'[s] = clientInit[s]
                 ELSE IF attempt[s] < 10
                      THEN /\ connectPc'[s] = "poll"
                           /\ attempt'[s] = attempt[s] + 1
                      ELSE /\ connectPc'[s] = "failed"
                           /\ thrown'[s] = Append(thrown[s], "Server did not connect")
                           /\ clientCapabilities'[s] = clientCapabilities[s]
        ]_vars
    /\ \A s \in Sessions : (connectPc[s] = "poll") ~> (connectPc[s] # "poll")

\* C27 witness: connect() failed after its 10 polls although the client has
\* initialized in the meantime.
C27_Witness ==
    /\ connectPc[1] = "failed"
    /\ thrown[1] = << "Server did not connect" >>
    /\ clientInit[1].known
    /\ ~clientCapabilities[1].known

\* close() was called on the session.
CloseCalled(s) == endpoint[s] \in { "closing", "closed" }

\* C28: once close() was called on a session, the session never becomes
\* active again (no transport is attached, no handshake completes, no ping
\* timer is started), handles no request and sends no ping, whatever is
\* invoked on it afterwards.
C28_ClosedIsTerminal ==
    [][\A s \in Sessions :
          CloseCalled(s) =>
              /\ transport'[s] => transport[s]
              /\ connectPc'[s] = "done" => connectPc[s] = "done"
              /\ timers'[s] \subseteq timers[s]
              /\ pendingPings'[s] <= pendingPings[s]
              /\ requests'[s] = requests[s]
              /\ calls'[s] = calls[s]
              /\ lastSetLevel'[s] = lastSetLevel[s]
      ]_vars

\* C29: once close() was called, connect() makes no further poll and the
\* session has no live ping timer, also when close() came while connect()
\* was in its polling loop.
C29_CloseCancelsBackgroundWork ==
    /\ [](\A s \in Sessions : CloseCalled(s) => timers[s] = {})
    /\ [][\A s \in Sessions : CloseCalled(s) => ~ConnectPoll(s)]_vars

\* C30: once the "disconnect" event of a session was emitted, the session
\* has no live ping timer, none is started, and no timer callback calls
\* ping() on it.
C30_DisconnectStopsPings ==
    [][\A s \in Sessions :
          EventCount("disconnect", s) > 0 =>
              /\ timers[s] = {}
              /\ timers'[s] = {}
              /\ pendingPings'[s] <= pendingPings[s]
      ]_vars

\* C31: connect() asks for the roots exactly when the capabilities it found
\* declare roots, and only once; the answer r becomes the session's roots in
\* the step that completes connect(), when no ping timer was started and no
\* connect event was emitted yet; a connect() that found no roots capability
\* completes without a request and leaves the roots as they are.
C31_RootsAtConnect ==
    /\ [](\A s \in Sessions : EventCount("connect", s) > 0 => connectPc[s] = "done")
    /\ [][\A s \in Sessions :
             /\ (connectPc[s] = "poll" /\ connectPc'[s] = "roots") =>
                    /\ clientCapabilities'[s].roots
                    /\ roots'[s] = roots[s]
                    /\ timers'[s] = timers[s]
             /\ (connectPc[s] = "poll" /\ connectPc'[s] = "done") =>
                    /\ clientCapabilities'[s].known
                    /\ ~clientCapabilities'[s].roots
                    /\ roots'[s] = roots[s]
             /\ connectPc'[s] = "roots" => connectPc[s] \in { "poll", "roots" }
             /\ connectPc'[s] = "poll" => connectPc[s] = "poll"
             /\ \A r \in RootLists :
                    ConnectRootsResult(s, r) =>
                        /\ roots'[s] = r
                        /\ connectPc'[s] = "done"
                        /\ timers[s] = {}
                        /\ Cardinality(timers'[s]) = 1
                        /\ EventCount("connect", s) = 0
         ]_vars

\* C31 witness: a client that declared roots is connected, the connect
\* event was emitted, and the session holds the two roots fetched at connect.
C31_Witness ==
    /\ clientCapabilities[1].roots
    /\ connectPc[1] = "done"
    /\ EventCount("connect", 1) = 1
    /\ rootsChanges = 0
    /\ roots[1] = << RootFrontend, RootBackend >>

\* C32: the close of a session and the disconnect event leave the calls of
\* the session and what they sent as they are, and a call that is executing
\* can run to its end at any time: whatever happened to the connection, its
\* execute may still resolve with any value or throw.
C32_NoCancellation ==
    /\ [](\A s \in Sessions : \A i \in 1 .. Len(calls[s]) :
             calls[s][i].status = "executing" =>
                 /\ \A v \in ToolResults : ENABLED ExecuteResolves(s, i, v)
                 /\ \A e \in ToolErrors : ENABLED ExecuteThrows(s, i, e))
    /\ [][\A s \in Sessions :
             (SseDisconnect(s) \/ SseClosed(s)) =>
                 /\ calls'[s] = calls[s]
                 /\ outbox'[s] = outbox[s]
         ]_vars

\* C32 witness: the connection went away and the disconnect event was
\* emitted while the first call was executing; the call resolved afterwards
\* or is still running, and a second call is still running.
C32_Witness ==
    /\ endpoint[1] = "closed"
    /\ EventCount("disconnect", 1) = 1
    /\ ~transport[1]
    /\ Len(calls[1]) = 2
    /\ calls[1][1].status = "resolved"
    /\ calls[1][2].status = "executing"

\* The first index at which sequence defs has key under field f, 0 if none.
FirstRegistered(defs, f, key) ==
    IF \E k \in 1 .. Len(defs) : defs[k][f] = key
    THEN CHOOSE k \in 1 .. Len(defs) :
             defs[k][f] = key /\ \A j \in 1 .. k - 1 : defs[j][f] # key
    ELSE 0

\* C33: with several tools, resources and prompts registered under one
\* name or uri, every tools/call, resources/read and prompts/get for it is
\* decided by the first registered definition alone: its schema, its
\* required arguments, its execute or loader, its mimeType in the answer; no
\* later duplicate is ever used.
C33_FirstRegisteredWins ==
    \A s \in Sessions :
        /\ \A i \in 1 .. Len(calls[s]) :
               LET c == calls[s][i]
                   first == FirstRegistered(tools, "name", c.name)
               IN  first # 0 =>
                       /\ c.status # "rejected" => c.tool = first
                       /\ c.status = "rejected" <=>
                              (tools[first].hasParameters /\ c.arguments \notin tools[first].parameters)
        /\ \A i \in 1 .. Len(requests[s]) :
               LET r == requests[s][i]
               IN  /\ r.method = "resources/read" =>
                          LET first == FirstRegistered(resources, "uri", r.name)
                          IN  first # 0 =>
                                  /\ r.definition = first
                                  /\ r.loads = 1
                                  /\ r.response.kind = "result" =>
                                         r.response.result.contents[1].mimeType.value = resources[first].mimeType
                   /\ r.method = "prompts/get" =>
                          LET first == FirstRegistered(prompts, "name", r.name)
                          IN  first # 0 =>
                                  /\ r.loads = 1 => r.definition = first
                                  /\ r.loads = 0 <=> AbsentRequired(first, r.arguments) # {}

\* C33 witness: "add" is registered twice; a call of it with arguments that
\* only the second definition accepts was rejected, a valid one executed the
\* first; a read of the uri registered twice was answered with the first
\* resource's mimeType; a prompts/get of "greeting" without arguments, which
\* the second definition requires, was loaded by the first.
C33_Witness ==
    /\ tools = << AddTool, AddDuplicate, PingTool >>
    /\ Len(calls[1]) = 2
    /\ calls[1][1].name = "add" /\ calls[1][1].status = "rejected"
    /\ calls[1][2].name = "add" /\ calls[1][2].status = "resolved" /\ calls[1][2].tool = 1
    /\ Len(requests[1]) = 2
    /\ requests[1][1].method = "resources/read"
    /\ requests[1][1].name = "file:///logs/app.log"
    /\ requests[1][1].response.kind = "result"
    /\ requests[1][1].response.result.contents[1].mimeType.value = "text/plain"
    /\ requests[1][2].method = "prompts/get"
    /\ requests[1][2].name = "greeting"
    /\ ~requests[1][2].arguments.present
    /\ requests[1][2].response.kind = "result"

\* The progressToken of the notification sent last.
LastToken(out) == out[Len(out)].params.progressToken

\* C34: while two calls with different progress tokens execute on one
\* session, a reportProgress of either sends one notification with the
\* token of the call that made it, not the token of the other call, and
\* leaves the notifications sent before as they are.
C34_OwnProgressToken ==
    [][\A s \in Sessions : \A i, j \in 1 .. Len(calls[s]) : \A p \in Progresses :
          ( /\ ReportProgress(s, i, p)
            /\ calls[s][j].status = "executing"
            /\ calls[s][j].progressToken # calls[s][i].progressToken ) =>
              /\ Len(outbox'[s]) = Len(outbox[s]) + 1
              /\ SubSeq(outbox'[s], 1, Len(outbox[s])) = outbox[s]
              /\ outbox'[s][Len(outbox'[s])].method = "notifications/progress"
              /\ LastToken(outbox'[s]) = calls[s][i].progressToken
              /\ LastToken(outbox'[s]) # calls[s][j].progressToken
      ]_vars

\* C34 witness: two calls with the tokens tokA and tokB are executing; the
\* second reported progress first, then the first.
C34_Witness ==
    /\ Len(calls[1]) = 2
    /\ calls[1][1].status = "executing" /\ calls[1][1].progressToken = "tokA"
    /\ calls[1][2].status = "executing" /\ calls[1][2].progressToken = "tokB"
    /\ Len(outbox[1]) = 2
    /\ outbox[1][1].params.progressToken = "tokB"
    /\ outbox[1][2].params.progressToken = "tokA"

\* Session s has more than one roots fetch outstanding.
FetchesOverlap(s) ==
    rootsRequests[s] + (IF connectPc[s] = "roots" THEN 1 ELSE 0) > 1

\* C35: the roots of a session change only when a roots fetch completes (the
\* one of connect() or a re-fetch) and are then the list of that fetch, also
\* while other fetches are outstanding; a rootsChanged event carries the
\* roots the session has when it is emitted.
C35_RootsAreLastCompletedFetch ==
    [][\A s \in Sessions :
          /\ roots'[s] # roots[s] =>
                 \E r \in RootLists : ConnectRootsResult(s, r) \/ RootsRefetched(s, r)
          /\ \A r \in RootLists :
                 ( /\ FetchesOverlap(s)
                   /\ ConnectRootsResult(s, r) \/ RootsRefetched(s, r) ) => roots'[s] = r
          /\ ( /\ Len(sessionEvents'[s]) > Len(sessionEvents[s])
               /\ sessionEvents'[s][Len(sessionEvents'[s])].type = "rootsChanged" )
             => sessionEvents'[s][Len(sessionEvents'[s])].roots = roots'[s]
      ]_vars

\* C35 witness: two notifications arrived while the fetch of connect() was
\* outstanding; one re-fetch completed, its list is the session's roots and
\* the payload of the one rootsChanged event, and two fetches are still
\* outstanding.
C35_Witness ==
    /\ connectPc[1] = "roots"
    /\ rootsChanges = 2
    /\ rootsRequests[1] = 1
    /\ roots[1] = << RootFrontend >>
    /\ sessionEvents[1] = << [type |-> "rootsChanged", roots |-> << RootFrontend >>] >>

C37_AtMostOneTimer ==
    \A s \in Sessions : Cardinality(timers[s]) <= 1

\* A value of execute whose content entries are not all entries of the
\* protocol.
Malformed(v) ==
    \/ v.kind = "content" /\ v.content \notin ProtocolContents
    \/ v.kind = "result" /\ ~(Range(v.result.content) \subseteq ProtocolContents)

\* A result as the protocol defines it: content entries of the protocol
\* (any text, or the image) and at most the field isError beside them.
WellFormed(r) ==
    /\ DOMAIN r \in { { "content" }, { "content", "isError" } }
    /\ \A k \in 1 .. Len(r.content) :
           \/ r.content[k] \in ProtocolContents
           \/ DOMAIN r.content[k] = { "type", "text" } /\ r.content[k].type = "text"

\* C38: a call whose execute resolves with a value holding a content entry
\* that the schema rejects (image data that is not base64, an unknown type,
\* an extra field) is answered with a result, not a protocol error, that is
\* the isError envelope with one text entry; and every result a call is
\* answered with, with isError or without, is well formed.
C38_MalformedResultIsEnvelope ==
    /\ [](\A s \in Sessions : \A k \in 1 .. Len(outbox[s]) :
             outbox[s][k].kind = "result" => WellFormed(outbox[s][k].result))
    /\ [][\A s \in Sessions : \A i \in 1 .. Len(calls[s]) : \A v \in ResultValues :
             (ExecuteResolves(s, i, v) /\ Malformed(v)) =>
                 LET m == outbox'[s][Len(outbox'[s])]
                 IN  /\ Len(outbox'[s]) = Len(outbox[s]) + 1
                     /\ m.kind = "result" /\ m.id = i
                     /\ DOMAIN m.result = { "content", "isError" }
                     /\ m.result.isError = TRUE
                     /\ Len(m.result.content) = 1
                     /\ m.result.content[1].type = "text"
                     /\ DOMAIN m.result.content[1] = { "type", "text" }
       ]_vars

\* C38 witness: one call resolved with a value the schema rejects and was
\* answered with the envelope; the other resolved with a well-formed result
\* without isError and was answered with it.
C38_Witness ==
    /\ Len(outbox[1]) = 2
    /\ outbox[1][1] = [kind |-> "result", id |-> 1, result |-> CaughtResult(ZodError)]
    /\ outbox[1][2] = [kind |-> "result", id |-> 2, result |-> [content |-> << TextA, ImagePng >>]]

C40_LevelDoesNotFilter ==
    /\ [](\A s \in Sessions : \A i \in 1 .. Len(calls[s]) :
             (calls[s][i].status = "executing" /\ ContextCalls(s) < MaxContextCalls) =>
                 \A fn \in LogFunctions : ENABLED Log(s, i, fn))
    /\ [][\A s \in Sessions :
             /\ \A i \in 1 .. Len(calls[s]) : \A fn \in LogFunctions :
                    Log(s, i, fn) =>
                        /\ Len(outbox'[s]) = Len(outbox[s]) + 1
                        /\ outbox'[s][Len(outbox'[s])].method = "notifications/message"
                        /\ loggingLevel' = loggingLevel
             /\ \A level \in SetLevels :
                    SetLevel(s, level) =>
                        /\ loggingLevel' = [loggingLevel EXCEPT ![s] = level]
                        /\ UNCHANGED << tools, outbox, calls, requests, toolHandlers, roots,
                                        sessionEvents, serverEvents, sessions, endpoint,
                                        transport, timers, pingInterval, thrown, connectPc,
                                        clientCapabilities, rootsRequests, pendingPings >>
       ]_vars

\* C40 witness: the level "error" is stored and the executing call's
\* debug and info messages were both sent.
C40_Witness ==
    /\ loggingLevel[1] = "error"
    /\ Len(calls[1]) = 1 /\ calls[1][1].status = "executing"
    /\ Len(outbox[1]) = 2
    /\ outbox[1][1].params.level = "debug"
    /\ outbox[1][2].params.level = "info"

====
